---- MODULE Spec2Model ----
(***************************************************************************)
(* Telegram MCP bridge (server v2): the durable per-session message queue, *)
(* the session registry, the Telegram ingestion loop and the interact      *)
(* facade, as a state machine.                                             *)
(*                                                                         *)
(* Environment assumptions of the model: file writes succeed (the catch    *)
(* branches of _save are not taken); every handler runs to its next await  *)
(* without interruption (one JavaScript thread per process); the clock is  *)
(* in whole seconds, as Math.floor(Date.now() / 1000) reads it.            *)
(***************************************************************************)
EXTENDS Integers, Sequences, FiniteSets, TLC

\* ------------------------------------------------------------------ bounds
\* Last second the model's clock reaches.
MaxTime == 2
\* Most messages enqueued in one behaviour.
MaxEnq == 2
\* History cap (TELEGRAM_MCP_MAX_HISTORY, default 200), scaled down.
MAX_HISTORY == 2
\* Liveness window of getActive (600 s in the source), scaled down.
LIVENESS_WINDOW == 1
\* Capacity of processedUpdates (1000 in the source), scaled down.
DEDUP_CAP == 2
\* Most insertions into processedUpdates in one behaviour: enough to push an
\* identifier out of the set and meet it again.
MaxSeen == DEDUP_CAP + 2

Sessions == {"A", "B"}
\* Object.keys order of the registry object.
SessionOrder == <<"A", "B">>
\* Slots for tool calls in flight at the same time in one process.
CallIds == {"c1", "c2"}
\* crypto.randomBytes(4).toString("hex"): two of the 2^32 values a draw can give.
Ids == {"0a1b2c3d", "4e5f6a7b"}
Texts == {"hello", "world"}
Times == 1..MaxTime

\* ------------------------------------------------------- MessageQueue class
\* A message as enqueue builds it; uid is a history field (the serial number
\* of the enqueue call), not part of the program's object.
Msg(id, text, sender, ts, uid) ==
  [id |-> id, text |-> text, sender |-> sender, ts |-> ts, uid |-> uid]

EmptyQueue == [pending |-> <<>>, delivered |-> <<>>]

\* The backing file: absent, unparseable, or the JSON object _save wrote.
NoFile == [kind |-> "missing", pending |-> <<>>, delivered |-> <<>>]
CorruptFile == [kind |-> "corrupt", pending |-> <<>>, delivered |-> <<>>]

\* Array.prototype.slice(-n): the last n elements (slice(-0) is the whole array).
SliceLast(s, n) ==
  IF n = 0 \/ Len(s) <= n THEN s ELSE SubSeq(s, Len(s) - n + 1, Len(s))

\* A constructor that does not read the file.
LoadNothing(file) == EmptyQueue

\* A constructor that takes an unreadable file for one holding a message.
LoadJunk(file) ==
  IF file.kind = "json"
  THEN [pending |-> file.pending,
        delivered |-> SliceLast(file.delivered, MAX_HISTORY)]
  ELSE [pending |-> <<Msg("0a1b2c3d", "hello", "user", 1, 0)>>, delivered |-> <<>>]

\* constructor + _load: a missing or corrupt file leaves the queue empty.
MQ_load(file) ==
  IF file.kind = "json"
  THEN [pending |-> file.pending,
        delivered |-> SliceLast(file.delivered, MAX_HISTORY)]
  ELSE EmptyQueue

\* _save that writes the whole delivered list.
SaveNoCap(q) ==
  [kind |-> "json", pending |-> q.pending, delivered |-> q.delivered]

\* _save: the whole object, delivered cut to the history cap.
MQ_save(q) ==
  [kind |-> "json", pending |-> q.pending,
   delivered |-> SliceLast(q.delivered, MAX_HISTORY)]

\* enqueue without its _save call.
EnqueueNoSave(q, file, m) ==
  [q |-> [q EXCEPT !.pending = Append(@, m)], file |-> file, msgs |-> <<m>>]

\* enqueue(text, sender): push, save, return the message.
enqueue(q, file, m) ==
  LET q2 == [q EXCEPT !.pending = Append(@, m)]
  IN  [q |-> q2, file |-> MQ_save(q2), msgs |-> <<m>>]

\* poll that returns the pending messages newest first.
PollReversed(q, file) ==
  LET n == Len(q.pending)
      q2 == [pending |-> <<>>, delivered |-> q.delivered \o q.pending]
  IN  [q |-> q2, file |-> MQ_save(q2),
       msgs |-> [i \in 1..n |-> q.pending[n + 1 - i]]]

\* poll that copies the pending messages to delivered and leaves them pending.
PollKeepPending(q, file) ==
  IF Len(q.pending) = 0
  THEN [q |-> q, file |-> file, msgs |-> <<>>]
  ELSE LET q2 == [pending |-> q.pending, delivered |-> q.delivered \o q.pending]
       IN  [q |-> q2, file |-> MQ_save(q2), msgs |-> q.pending]

\* poll(): all pending messages move to delivered and are returned.
poll(q, file) ==
  IF Len(q.pending) = 0
  THEN [q |-> q, file |-> file, msgs |-> <<>>]
  ELSE LET q2 == [pending |-> <<>>, delivered |-> q.delivered \o q.pending]
       IN  [q |-> q2, file |-> MQ_save(q2), msgs |-> q.pending]

IsFresh(m, sinceTs) == m.ts > sinceTs
FreshOf(s, sinceTs) == SelectSeq(s, LAMBDA m : IsFresh(m, sinceTs))
StaleOf(s, sinceTs) == SelectSeq(s, LAMBDA m : ~IsFresh(m, sinceTs))

\* pollSince that leaves the stale messages pending.
PollSinceKeepStale(q, file, sinceTs) ==
  LET q2 == [pending |-> StaleOf(q.pending, sinceTs),
             delivered |-> q.delivered \o FreshOf(q.pending, sinceTs)]
  IN  [q |-> q2, file |-> MQ_save(q2), msgs |-> FreshOf(q.pending, sinceTs)]

\* pollSince(sinceTs): stale then fresh go to delivered, fresh is returned.
pollSince(q, file, sinceTs) ==
  IF Len(q.pending) = 0
  THEN [q |-> q, file |-> file, msgs |-> <<>>]
  ELSE LET fresh == FreshOf(q.pending, sinceTs)
           stale == StaleOf(q.pending, sinceTs)
           q2 == [pending |-> <<>>, delivered |-> (q.delivered \o stale) \o fresh]
       IN  [q |-> q2, file |-> MQ_save(q2), msgs |-> fresh]

pendingCount(q) == Len(q.pending)

\* A count that takes the messages of the second sinceTs along.
CountSinceInclusive(q, sinceTs) ==
  IF sinceTs = 0 THEN Len(q.pending)
  ELSE Len(SelectSeq(q.pending, LAMBDA m : m.ts >= sinceTs))

\* pendingCountSince(sinceTs): if (!sinceTs) the length, else the fresh ones.
pendingCountSince(q, sinceTs) ==
  IF sinceTs = 0 THEN Len(q.pending) ELSE Len(FreshOf(q.pending, sinceTs))

\* clear(): both lists emptied, saved.
clear(q, file) ==
  [q |-> EmptyQueue, file |-> MQ_save(EmptyQueue), msgs |-> <<>>]

\* ----------------------------------------------------- SessionRegistry class
NoEntry == [known |-> FALSE, startedAt |-> 0, lastSeen |-> 0, active |-> FALSE]
EmptyRegistry == [s \in Sessions |-> NoEntry]
NoRegFile == [kind |-> "missing", sessions |-> EmptyRegistry]

\* constructor + _load: the only place the registry file is read.
SR_load(file) == IF file.kind = "json" THEN file.sessions ELSE EmptyRegistry

\* _save: the whole in-memory object replaces the file.
SR_save(reg) == [kind |-> "json", sessions |-> reg]

\* register(sessionId, machine, agent): upsert, save.
register(reg, file, sid, t) ==
  LET reg2 == [reg EXCEPT ![sid] =
                 [known |-> TRUE, startedAt |-> t, lastSeen |-> t, active |-> TRUE]]
  IN  [reg |-> reg2, file |-> SR_save(reg2)]

\* A heartbeat that marks the session active again.
HeartbeatReactivating(reg, file, sid, t) ==
  IF reg[sid].known
  THEN LET reg2 == [reg EXCEPT ![sid].lastSeen = t, ![sid].active = TRUE]
       IN  [reg |-> reg2, file |-> SR_save(reg2)]
  ELSE [reg |-> reg, file |-> file]

\* A heartbeat that does nothing.
HeartbeatNothing(reg, file, sid, t) == [reg |-> reg, file |-> file]

\* heartbeat(sessionId): lastSeen of a known entry, save.
heartbeat(reg, file, sid, t) ==
  IF reg[sid].known
  THEN LET reg2 == [reg EXCEPT ![sid].lastSeen = t]
       IN  [reg |-> reg2, file |-> SR_save(reg2)]
  ELSE [reg |-> reg, file |-> file]

\* A deactivate that does nothing.
DeactivateNothing(reg, file, sid) == [reg |-> reg, file |-> file]

\* deactivate(sessionId): active = false on a known entry, save.
deactivate(reg, file, sid) ==
  IF reg[sid].known
  THEN LET reg2 == [reg EXCEPT ![sid].active = FALSE]
       IN  [reg |-> reg2, file |-> SR_save(reg2)]
  ELSE [reg |-> reg, file |-> file]

\* A getActive that looks at the active mark only.
GetActiveIgnoreWindow(reg, t) ==
  {s \in Sessions : reg[s].known /\ reg[s].active}

\* getActive(): marked active and seen within the liveness window.
getActive(reg, t) ==
  {s \in Sessions : reg[s].known /\ reg[s].active /\ (t - reg[s].lastSeen) < LIVENESS_WINDOW}

\* getActiveSessionIds(): the keys of getActive(), in key order.
getActiveSessionIds(reg, t) ==
  SelectSeq(SessionOrder, LAMBDA s : s \in getActive(reg, t))

InSeq(x, s) == \E i \in 1..Len(s) : s[i] = x

\* --------------------------------------------------------------- transport
\* The chat the bridge is configured for, and another one.
AuthChat == "1001"
OtherChat == "2002"
NoText == ""
\* Update identifiers the transport can deliver.
UpdateIds == {1, 2, 3, 4, 5, 6, 7, 8, 9, 10}
\* message_thread_id of the forum topics the sessions A and B get (0: none,
\* the General topic).
TopicOf == [s \in Sessions |-> IF s = "A" THEN 11 ELSE 12]
\* Lengths of a getUpdates result.
BatchLens == {0, 1, 2}
\* Values of the wait and timeout arguments, in seconds, after the clamp to 0..300.
Waits == {0, 1}

\* The update the transport holds under identifier u: {update_id, message}.
\* An update without a message, or whose message has no text, has NoText.
Update(u) ==
  LET k == (u - 1) % 10
      General(chat, text) ==
        [update_id |-> u, chat |-> chat, text |-> text, topic |-> 0, is_bot |-> FALSE]
      InTopic(text, topic, bot) ==
        [update_id |-> u, chat |-> AuthChat, text |-> text, topic |-> topic, is_bot |-> bot]
  IN  CASE k = 0 -> General(AuthChat, "hello")
        [] k = 1 -> General(OtherChat, "intruder")
        [] k = 2 -> General(AuthChat, "world")
        [] k = 3 -> General(AuthChat, NoText)
        [] k = 4 -> General(AuthChat, "/start")
        [] k = 5 -> General(AuthChat, "/sessions")
        [] k = 6 -> InTopic("hello", 11, FALSE)
        [] k = 7 -> InTopic("world", 12, FALSE)
        [] k = 8 -> InTopic("/start", 11, FALSE)
        [] OTHER -> InTopic("hello", 11, TRUE)

\* Results of getUpdates over the identifiers ids: sequences of updates, in
\* any order, repeats allowed.
Batches(ids) == UNION {[1..n -> ids] : n \in BatchLens}

\* ------------------------------------------------------------------- state
VARIABLES
  now,        \* the clock, in seconds
  CHAT_ID,    \* TELEGRAM_CHAT_ID: the authorized chat, "" when not configured
  running,    \* running[p]: the process of session p is up
  queue,      \* queue[p]: the MessageQueue object of process p
  qfile,      \* qfile[s]: the backing file queue-<s>.json
  registry,   \* registry[p]: the _sessions object of process p
  regFile,    \* the shared _sessions.json
  loop,       \* loop[p]: where startPollingLoop of p stands
  pollingActive,    \* pollingActive[p]
  lastUpdateId,     \* lastUpdateId[p]: the offset cursor
  processedUpdates, \* processedUpdates[p]: the Set, in insertion order
  inbox,      \* inbox[p]: updates of the current result not yet handled
  variant,    \* variant[p]: the server program process p runs, "v2" or "topics"
  topicMap,   \* the shared _topics.json: topicMap[s], 0 when s has no entry
  topicDraft, \* topicDraft[p]: the map ensureTopic of p loaded before its await
  calls,      \* calls[p][c]: the tool call in slot c of process p
  lastResp,   \* the tool response a step returns to the agent (NoResp in every other state)
  nextUid,    \* history: serial number of the next enqueue call
  op,         \* history: the last direct queue operation, with its argument
  prevOp,     \* history: the operation before it
  ret,        \* history: what the last direct queue operation returned
  expectPending, \* history: expectPending[s], the messages enqueue returned since the last drain
  lastDrain,  \* history: expectPending as it was when the last drain started
  deliveredLog,  \* history: the uids drained from A's queue object, in drain order
  returned,   \* history: returned[s], uids handed to a consumer, in order
  dropped,    \* history: dropped[s], uids drained as stale without being returned
  beat,       \* history: beat[s], the direct registry calls made for session s
  enqLog,     \* history: every enqueue the ingestion loops made
  insLog,     \* history: insLog[p], every insertion into processedUpdates[p]
  lastSkipped, \* history: identifiers the last run of the update loop skipped as seen
  retNow,     \* history: retNow[p], the now of the last ok interact response
  afterRet,   \* history: afterRet[p], uids enqueued into queue[p] since that response
  clean       \* history: clean[p], no other call drained queue[p] since that response

basevars == <<now, queue, qfile, nextUid, returned>>
unitvars == <<op, prevOp, ret, expectPending, lastDrain, deliveredLog, dropped, beat>>
topicvars == <<variant, topicMap, topicDraft>>
procvars == <<CHAT_ID, running, registry, regFile, loop, pollingActive,
              lastUpdateId, processedUpdates, inbox,
             topicvars>>
callvars == <<calls, retNow, afterRet, clean>>
logvars == <<enqLog, insLog, lastSkipped>>
vars == <<basevars, unitvars, procvars, callvars, logvars, lastResp>>

UidSeqOf(msgs) == [i \in 1..Len(msgs) |-> msgs[i].uid]

Uids(s) == {s[i].uid : i \in 1..Len(s)}
IdleOp == [name |-> "none", arg |-> 0]
Range(s) == {s[i] : i \in 1..Len(s)}

\* arrived is history: uids of the qualifying messages enqueued while the
\* call was in its wait loop.
\* An outbound text argument that is not given, and what the tools' tests
\* if (message) and if (!text) make of an argument.
Absent == "<absent>"
Truthy(text) == text # Absent /\ text # ""

IdleCall == [pc |-> "idle", tool |-> "none", wait |-> 0, sinceTs |-> 0,
             deadline |-> 0, nowRead |-> 0, arrived |-> <<>>, text |-> Absent]
\* follows and expect are history: whether the call was the next interact
\* after an ok interact response whose now it passed as since_ts, and the
\* uids enqueued in between.
NoResp == [proc |-> "none", tool |-> "none", ok |-> FALSE,
           error |-> "none", now |-> 0, sinceTs |-> 0,
           messages |-> <<>>, uids |-> <<>>, pending |-> 0,
           follows |-> FALSE, expect |-> <<>>, wait |-> 0, arrived |-> <<>>,
           text |-> Absent, sent |-> FALSE]

\* Calls take the first free slot.
FreeSlot(p, c) ==
  /\ calls[p][c].pc = "idle"
  /\ c = "c2" => calls[p]["c1"].pc # "idle"

\* Every process down, no file written yet.
InitDown ==
  /\ running = [p \in Sessions |-> FALSE]
  /\ queue = [p \in Sessions |-> EmptyQueue]
  /\ qfile = [s \in Sessions |-> NoFile]
  /\ registry = [p \in Sessions |-> EmptyRegistry]
  /\ regFile = NoRegFile
  /\ loop = [p \in Sessions |-> "down"]
  /\ pollingActive = [p \in Sessions |-> FALSE]
  /\ lastUpdateId = [p \in Sessions |-> 0]
  /\ processedUpdates = [p \in Sessions |-> <<>>]
  /\ inbox = [p \in Sessions |-> <<>>]
  /\ variant = [p \in Sessions |-> "v2"]
  /\ topicMap = [s \in Sessions |-> 0]
  /\ topicDraft = [p \in Sessions |-> [s \in Sessions |-> 0]]
  /\ calls = [p \in Sessions |-> [c \in CallIds |-> IdleCall]]

InitHistory ==
  /\ lastResp = NoResp
  /\ nextUid = 1
  /\ op = IdleOp
  /\ prevOp = IdleOp
  /\ ret = <<>>
  /\ expectPending = [s \in Sessions |-> <<>>]
  /\ lastDrain = <<>>
  /\ deliveredLog = <<>>
  /\ returned = [s \in Sessions |-> <<>>]
  /\ dropped = [s \in Sessions |-> {}]
  /\ beat = [s \in Sessions |-> [on |-> FALSE, at |-> 0]]
  /\ enqLog = <<>>
  /\ insLog = [p \in Sessions |-> <<>>]
  /\ lastSkipped = {}
  /\ retNow = [p \in Sessions |-> 0]
  /\ afterRet = [p \in Sessions |-> <<>>]
  /\ clean = [p \in Sessions |-> FALSE]

\* ---------------------------------------------------- the queue on its own
\* The operations of one MessageQueue object (session A's), called directly
\* as the unit tests call them.
InitQueueOn(files) ==
  /\ now = 1
  /\ CHAT_ID = AuthChat
  /\ InitHistory
  /\ \E f \in files :
       /\ qfile = [s \in Sessions |-> IF s = "A" THEN f ELSE NoFile]
       /\ queue = [s \in Sessions |-> MQ_load(IF s = "A" THEN f ELSE NoFile)]
  /\ running = [p \in Sessions |-> FALSE]
  /\ registry = [p \in Sessions |-> EmptyRegistry]
  /\ regFile = NoRegFile
  /\ loop = [p \in Sessions |-> "down"]
  /\ pollingActive = [p \in Sessions |-> FALSE]
  /\ lastUpdateId = [p \in Sessions |-> 0]
  /\ processedUpdates = [p \in Sessions |-> <<>>]
  /\ inbox = [p \in Sessions |-> <<>>]
  /\ variant = [p \in Sessions |-> "v2"]
  /\ topicMap = [s \in Sessions |-> 0]
  /\ topicDraft = [p \in Sessions |-> [s \in Sessions |-> 0]]
  /\ calls = [p \in Sessions |-> [c \in CallIds |-> IdleCall]]

\* The file is absent, unparseable, or holds an empty queue.
InitQueue == InitQueueOn({NoFile, CorruptFile, MQ_save(EmptyQueue)})

\* The file is not there or cannot be parsed.
InitFresh == InitQueueOn({NoFile, CorruptFile})

Tick ==
  /\ now < MaxTime
  /\ now' = now + 1
  /\ UNCHANGED <<queue, qfile, nextUid, returned, unitvars, procvars,
                callvars, logvars>>
  /\ lastResp' = NoResp

QEnqueueWithin(text, id, max) ==
  /\ nextUid <= max
  /\ LET m == Msg(id, text, "user", now, nextUid)
         r == enqueue(queue["A"], qfile["A"], m)
     IN  /\ queue' = [queue EXCEPT !["A"] = r.q]
         /\ qfile' = [qfile EXCEPT !["A"] = r.file]
         /\ ret' = r.msgs
         /\ expectPending' = [expectPending EXCEPT !["A"] = Append(@, r.msgs[1])]
  /\ nextUid' = nextUid + 1
  /\ prevOp' = op
  /\ op' = [name |-> "enqueue", arg |-> 0]
  /\ UNCHANGED <<now, lastDrain, deliveredLog, returned, dropped, beat, procvars,
                callvars, logvars>>
  /\ lastResp' = NoResp

QEnqueue(text, id) == QEnqueueWithin(text, id, MaxEnq)

QPoll ==
  /\ LET r == poll(queue["A"], qfile["A"])
     IN  /\ queue' = [queue EXCEPT !["A"] = r.q]
         /\ qfile' = [qfile EXCEPT !["A"] = r.file]
         /\ ret' = r.msgs
         /\ returned' = [returned EXCEPT !["A"] = @ \o [i \in 1..Len(r.msgs) |-> r.msgs[i].uid]]
  /\ lastDrain' = expectPending["A"]
  /\ deliveredLog' = deliveredLog \o UidSeqOf(queue["A"].pending)
  /\ expectPending' = [expectPending EXCEPT !["A"] = <<>>]
  /\ prevOp' = op
  /\ op' = [name |-> "poll", arg |-> 0]
  /\ UNCHANGED <<now, nextUid, dropped, beat, procvars, callvars, logvars>>
  /\ lastResp' = NoResp

QPollSince(sinceTs) ==
  /\ LET r == pollSince(queue["A"], qfile["A"], sinceTs)
     IN  /\ queue' = [queue EXCEPT !["A"] = r.q]
         /\ qfile' = [qfile EXCEPT !["A"] = r.file]
         /\ ret' = r.msgs
         /\ returned' = [returned EXCEPT !["A"] = @ \o [i \in 1..Len(r.msgs) |-> r.msgs[i].uid]]
         /\ dropped' = [dropped EXCEPT !["A"] =
                          @ \cup (Uids(queue["A"].pending) \ Uids(r.q.pending \o r.msgs))]
  /\ lastDrain' = expectPending["A"]
  /\ deliveredLog' = deliveredLog \o UidSeqOf(queue["A"].pending)
  /\ expectPending' = [expectPending EXCEPT !["A"] = <<>>]
  /\ prevOp' = op
  /\ op' = [name |-> "pollSince", arg |-> sinceTs]
  /\ UNCHANGED <<now, nextUid, beat, procvars, callvars, logvars>>
  /\ lastResp' = NoResp

QClear ==
  /\ LET r == clear(queue["A"], qfile["A"])
     IN  /\ queue' = [queue EXCEPT !["A"] = r.q]
         /\ qfile' = [qfile EXCEPT !["A"] = r.file]
         /\ ret' = r.msgs
  /\ expectPending' = [expectPending EXCEPT !["A"] = <<>>]
  /\ prevOp' = op
  /\ op' = [name |-> "clear", arg |-> 0]
  /\ deliveredLog' = <<>>
  /\ UNCHANGED <<now, nextUid, lastDrain, returned, dropped, beat, procvars,
                callvars, logvars>>
  /\ lastResp' = NoResp

\* The process restarts with the same session id: a new object on the same file.
QReopen ==
  /\ queue' = [queue EXCEPT !["A"] = MQ_load(qfile["A"])]
  /\ ret' = <<>>
  /\ prevOp' = op
  /\ op' = [name |-> "reopen", arg |-> 0]
  /\ UNCHANGED <<now, qfile, nextUid, expectPending, lastDrain, deliveredLog, returned,
                dropped, beat, procvars, callvars, logvars>>
  /\ lastResp' = NoResp

NextQueue ==
  \/ Tick
  \/ \E text \in Texts, id \in Ids : QEnqueue(text, id)
  \/ QPoll
  \/ \E sinceTs \in 0..MaxTime : QPollSince(sinceTs)
  \/ QClear
  \/ QReopen

SpecQueue == InitQueue /\ [][NextQueue]_vars

\* The object built on a file that is not there or cannot be parsed, used
\* as a new queue is.
NextFresh ==
  \/ Tick
  \/ \E text \in Texts, id \in Ids : QEnqueue(text, id)
  \/ QPoll
  \/ \E sinceTs \in 0..MaxTime : QPollSince(sinceTs)

SpecFresh == InitFresh /\ [][NextFresh]_vars

\* The same object used past the history cap: one more message than the
\* cap is enqueued, in any interleaving with the drains.
NextHistory ==
  \/ Tick
  \/ QEnqueueWithin("hello", "0a1b2c3d", MAX_HISTORY + 1)
  \/ QPoll
  \/ \E sinceTs \in 0..MaxTime : QPollSince(sinceTs)
  \/ QReopen

SpecHistory == InitQueue /\ [][NextHistory]_vars

\* ------------------------------------------------- the registry on its own
\* The operations of one SessionRegistry object (process A's), called
\* directly for either session id. beat[s] records whether s was registered
\* and not deactivated since (on), and when it was last registered or, once
\* registered, heartbeated (at; 0: never).
RRegister(sid) ==
  /\ LET r == register(registry["A"], regFile, sid, now)
     IN  /\ registry' = [registry EXCEPT !["A"] = r.reg]
         /\ regFile' = r.file
  /\ beat' = [beat EXCEPT ![sid] = [on |-> TRUE, at |-> now]]
  /\ prevOp' = op
  /\ op' = [name |-> "register", arg |-> 0]
  /\ UNCHANGED <<basevars, ret, expectPending, lastDrain, deliveredLog, dropped, CHAT_ID,
                running, loop, pollingActive, topicvars, lastUpdateId, processedUpdates,
                inbox, callvars, logvars>>
  /\ lastResp' = NoResp

RHeartbeat(sid) ==
  /\ LET r == heartbeat(registry["A"], regFile, sid, now)
     IN  /\ registry' = [registry EXCEPT !["A"] = r.reg]
         /\ regFile' = r.file
  /\ beat' = [beat EXCEPT ![sid].at = IF @ = 0 THEN 0 ELSE now]
  /\ prevOp' = op
  /\ op' = [name |-> "heartbeat", arg |-> 0]
  /\ UNCHANGED <<basevars, ret, expectPending, lastDrain, deliveredLog, dropped, CHAT_ID,
                running, loop, pollingActive, topicvars, lastUpdateId, processedUpdates,
                inbox, callvars, logvars>>
  /\ lastResp' = NoResp

RDeactivate(sid) ==
  /\ LET r == deactivate(registry["A"], regFile, sid)
     IN  /\ registry' = [registry EXCEPT !["A"] = r.reg]
         /\ regFile' = r.file
  /\ beat' = [beat EXCEPT ![sid].on = FALSE]
  /\ prevOp' = op
  /\ op' = [name |-> "deactivate", arg |-> 0]
  /\ UNCHANGED <<basevars, ret, expectPending, lastDrain, deliveredLog, dropped, CHAT_ID,
                running, loop, pollingActive, topicvars, lastUpdateId, processedUpdates,
                inbox, callvars, logvars>>
  /\ lastResp' = NoResp

NextRegistry ==
  \/ Tick
  \/ \E sid \in Sessions : RRegister(sid)
  \/ \E sid \in Sessions : RHeartbeat(sid)
  \/ \E sid \in Sessions : RDeactivate(sid)

\* No process up, an empty data directory.
InitRegistry ==
  /\ now = 1
  /\ CHAT_ID = AuthChat
  /\ InitDown
  /\ InitHistory

SpecRegistry == InitRegistry /\ [][NextRegistry]_vars

\* -------------------------------------------------------- the ingestion loop
\* Math.floor(Date.now() / 1000) at the k-th enqueue of a handler: the clock
\* may pass one second boundary while a handler runs, before enqueue tickAt.
ClockRead(k, tickAt) == IF tickAt # 0 /\ k >= tickAt THEN now + 1 ELSE now

DrawAt(draw, k) == IF k \in DOMAIN draw THEN draw[k] ELSE draw[1]

\* The chat filter without its test: every chat passes.
UnauthorizedNever(chatId) == FALSE

\* A chat filter that compares also when no chat is configured.
UnauthorizedUnlessEqual(chatId) == chatId # CHAT_ID

\* if (CHAT_ID && chatId !== CHAT_ID)
Unauthorized(chatId) == CHAT_ID # "" /\ chatId # CHAT_ID

\* A test that recognises no command.
IsCommandNever(text) == FALSE

\* msg.text === "/start", msg.text === "/sessions"
IsCommand(text) == text = "/start" \/ text = "/sessions"

\* A dedup test that never finds the identifier.
HasNever(pu, u) == FALSE

\* processedUpdates.has(update.update_id)
Has(pu, u) == InSeq(u, pu)

\* An eviction that deletes the member added just before the new one.
AddEvictLatest(pu, u) ==
  IF Len(pu) + 1 > DEDUP_CAP THEN Append(SubSeq(pu, 1, Len(pu) - 1), u)
  ELSE Append(pu, u)

\* processedUpdates.add(u), then delete the oldest once the size exceeds the cap.
AddEvict(pu, u) ==
  LET pu1 == Append(pu, u)
  IN  IF Len(pu1) > DEDUP_CAP THEN Tail(pu1) ELSE pu1

\* The handler's working state: cursor, dedup set, own queue object, queue
\* files, and the history it extends.
HandlerState(p) ==
  [lu |-> lastUpdateId[p], pu |-> processedUpdates[p], q |-> queue[p],
   files |-> qfile, uid |-> nextUid, n |-> 0, log |-> enqLog,
   ins |-> insLog[p], skip |-> {}, rest |-> <<>>, cmd |-> FALSE]

\* buildTopicToSessionMap: the topic map file read and reversed, topic id to
\* session id; a later entry of the file overwrites an earlier one for the
\* same topic id. General (0) and an unknown topic have no session.
NoSession == "none"

TopicIds == {TopicOf[s] : s \in Sessions}

buildTopicToSessionMap(map) ==
  [t \in TopicIds \cup {0} |->
     LET at == {i \in 1..Len(SessionOrder) : map[SessionOrder[i]] = t}
     IN  IF t = 0 \/ at = {} THEN NoSession
         ELSE SessionOrder[CHOOSE i \in at : \A j \in at : j <= i]]

\* One enqueue of broadcastToSessions: into the own object, or into a new
\* MessageQueue object built on the other session's file.
EnqueueInto(p, st, sid, text, u, tickAt, draw) ==
  LET k == st.n + 1
      m == Msg(DrawAt(draw, k), text, "user", ClockRead(k, tickAt), st.uid)
      r == IF sid = p THEN enqueue(st.q, st.files[p], m)
           ELSE enqueue(MQ_load(st.files[sid]), st.files[sid], m)
      e == [by |-> p, into |-> sid, upd |-> u, msg |-> m, targetUp |-> running[sid],
            owner |-> buildTopicToSessionMap(topicMap)[Update(u).topic]]
  IN  [st EXCEPT !.q = IF sid = p THEN r.q ELSE @,
                 !.files = [@ EXCEPT ![sid] = r.file],
                 !.uid = @ + 1, !.n = k, !.log = Append(@, e)]

RECURSIVE BroadcastLoop(_, _, _, _, _, _, _)
BroadcastLoop(p, st, ids, text, u, tickAt, draw) ==
  IF ids = <<>> THEN st
  ELSE BroadcastLoop(p, EnqueueInto(p, st, Head(ids), text, u, tickAt, draw),
                     Tail(ids), text, u, tickAt, draw)

\* A broadcast that reaches the own queue only.
BroadcastOwnOnly(p, st, text, u, tickAt, draw) ==
  EnqueueInto(p, st, p, text, u, tickAt, draw)

\* A broadcast without the enqueue of last resort.
BroadcastNoFallback(p, st, text, u, tickAt, draw) ==
  BroadcastLoop(p, st, getActiveSessionIds(registry[p], ClockRead(st.n + 1, tickAt)),
                text, u, tickAt, draw)

\* broadcastToSessions(text, sender): every session live in this process's
\* registry object, and the own queue when the own session is not among them.
broadcastToSessions(p, st, text, u, tickAt, draw) ==
  LET activeIds == getActiveSessionIds(registry[p], ClockRead(st.n + 1, tickAt))
      st1 == BroadcastLoop(p, st, activeIds, text, u, tickAt, draw)
  IN  IF ~InSeq(p, activeIds)
      THEN EnqueueInto(p, st1, p, text, u, tickAt, draw)
      ELSE st1

\* A cursor that moves only for an update not handled before.
AdvanceCursorNewOnly(st, u) ==
  IF Has(st.pu, u) THEN st ELSE [st EXCEPT !.lu = u + 1]

\* lastUpdateId = update.update_id + 1, the first statement of the loop body.
AdvanceCursor(st, u) == [st EXCEPT !.lu = u + 1]

\* The for loop of pollTelegram over res.result, up to the first await (the
\* reply to a command), where the rest of the result is kept in rest.
RECURSIVE HandleUpdates(_, _, _, _, _)
HandleUpdates(p, st, batch, tickAt, draw) ==
  IF batch = <<>> THEN st
  ELSE
    LET u == Head(batch)
        st1 == AdvanceCursor(st, u)
    IN  IF Has(st.pu, u)
          THEN HandleUpdates(p, [st1 EXCEPT !.skip = @ \cup {u}], Tail(batch), tickAt, draw)
        ELSE
          LET st2 == [st1 EXCEPT !.pu = AddEvict(@, u), !.ins = Append(@, u)]
              msg == Update(u)
          IN  IF msg.text = NoText
                THEN HandleUpdates(p, st2, Tail(batch), tickAt, draw)
              ELSE IF Unauthorized(msg.chat)
                THEN HandleUpdates(p, st2, Tail(batch), tickAt, draw)
              ELSE IF IsCommand(msg.text)
                THEN [st2 EXCEPT !.rest = Tail(batch), !.cmd = TRUE]
              ELSE HandleUpdates(p, broadcastToSessions(p, st2, msg.text, u, tickAt, draw),
                                 Tail(batch), tickAt, draw)

\* Uids the handler enqueued into its own queue object.
OwnNew(p, st) ==
  LET new == SubSeq(st.log, Len(enqLog) + 1, Len(st.log))
      own == SelectSeq(new, LAMBDA e : e.into = p)
  IN  [i \in 1..Len(own) |-> own[i].msg.uid]

\* The calls of p in their wait loop, with the uids the handler enqueued
\* into the own queue that qualify for them (ts > since_ts, or any).
NoteArrivals(p, st) ==
  LET new == SubSeq(st.log, Len(enqLog) + 1, Len(st.log))
      own == SelectSeq(new, LAMBDA e : e.into = p)
      For(call) == SelectSeq(own, LAMBDA e : call.sinceTs = 0 \/ e.msg.ts > call.sinceTs)
  IN  [c \in CallIds |->
        IF calls[p][c].pc = "wait"
        THEN [calls[p][c] EXCEPT !.arrived =
                @ \o [i \in 1..Len(For(calls[p][c])) |-> For(calls[p][c])[i].msg.uid]]
        ELSE calls[p][c]]

\* What a run of the handler leaves: the loop state, then either the await
\* of the command reply, or the heartbeat and the sleep of startPollingLoop.
HandlerEndWithin(p, st, tickAt, max) ==
  /\ st.uid <= max + 1
  /\ Len(st.ins) <= MaxSeen
  /\ tickAt # 0 => now < MaxTime
  /\ now' = IF tickAt = 0 THEN now ELSE now + 1
  /\ lastUpdateId' = [lastUpdateId EXCEPT ![p] = st.lu]
  /\ processedUpdates' = [processedUpdates EXCEPT ![p] = st.pu]
  /\ queue' = [queue EXCEPT ![p] = st.q]
  /\ qfile' = st.files
  /\ nextUid' = st.uid
  /\ enqLog' = st.log
  /\ insLog' = [insLog EXCEPT ![p] = st.ins]
  /\ lastSkipped' = st.skip
  /\ afterRet' = [afterRet EXCEPT ![p] = @ \o OwnNew(p, st)]
  /\ IF st.cmd
     THEN /\ loop' = [loop EXCEPT ![p] = "reply"]
          /\ inbox' = [inbox EXCEPT ![p] = st.rest]
          /\ UNCHANGED <<registry, regFile>>
     ELSE LET h == heartbeat(registry[p], regFile, p, now')
          IN  /\ loop' = [loop EXCEPT ![p] = "sleep"]
              /\ inbox' = [inbox EXCEPT ![p] = <<>>]
              /\ registry' = [registry EXCEPT ![p] = h.reg]
              /\ regFile' = h.file
  /\ calls' = [calls EXCEPT ![p] = NoteArrivals(p, st)]
  /\ UNCHANGED <<CHAT_ID, running, pollingActive, topicvars, returned, unitvars,
                retNow, clean>>
  /\ lastResp' = NoResp

HandlerEnd(p, st, tickAt) == HandlerEndWithin(p, st, tickAt, MaxEnq)

\* The process starts: queue and registry objects are built from the files,
\* the session registers, main() starts the polling loop with the flush.
StartAs(p, v) ==
  /\ ~running[p]
  /\ LET r == register(SR_load(regFile), regFile, p, now)
     IN  /\ registry' = [registry EXCEPT ![p] = r.reg]
         /\ regFile' = r.file
  /\ running' = [running EXCEPT ![p] = TRUE]
  /\ queue' = [queue EXCEPT ![p] = MQ_load(qfile[p])]
  /\ pollingActive' = [pollingActive EXCEPT ![p] = TRUE]
  /\ variant' = [variant EXCEPT ![p] = v]
  /\ UNCHANGED <<topicMap, topicDraft>>
  /\ loop' = [loop EXCEPT ![p] = "flush"]
  /\ lastUpdateId' = [lastUpdateId EXCEPT ![p] = 0]
  /\ processedUpdates' = [processedUpdates EXCEPT ![p] = <<>>]
  /\ inbox' = [inbox EXCEPT ![p] = <<>>]
  /\ calls' = [calls EXCEPT ![p] = [c \in CallIds |-> IdleCall]]
  /\ retNow' = [retNow EXCEPT ![p] = 0]
  /\ afterRet' = [afterRet EXCEPT ![p] = <<>>]
  /\ clean' = [clean EXCEPT ![p] = FALSE]
  /\ UNCHANGED <<now, CHAT_ID, qfile, nextUid, returned, unitvars, logvars>>
  /\ lastResp' = NoResp

\* The server without topics is the program that is started.
Start(p) == StartAs(p, "v2")

\* The server with forum topics is the program that is started.
StartTopics(p) == StartAs(p, "topics")

\* flushOldUpdates: the answer to getUpdates({offset: -1}); last is 0 when the
\* request failed or the result was empty.
FlushResponse(p, last) ==
  /\ running[p] /\ loop[p] = "flush" /\ variant[p] = "v2"
  /\ lastUpdateId' = [lastUpdateId EXCEPT ![p] = IF last = 0 THEN @ ELSE last + 1]
  /\ loop' = [loop EXCEPT ![p] = "poll"]
  /\ UNCHANGED <<basevars, unitvars, CHAT_ID, running, registry, regFile,
                pollingActive, topicvars, processedUpdates, inbox, callvars, logvars>>
  /\ lastResp' = NoResp

\* pollTelegram: the answer to getUpdates arrives. kind is "error" (the
\* request threw), "notok" (!res.ok || !res.result) or "ok" with a result.
PollResponse(p, kind, batch, tickAt, draw) ==
  /\ running[p] /\ loop[p] = "poll" /\ variant[p] = "v2"
  /\ HandlerEnd(p, IF kind = "ok"
                    THEN HandleUpdates(p, HandlerState(p), batch, tickAt, draw)
                    ELSE HandlerState(p), tickAt)

\* pollTelegram answered with a result, in a run of the system where up to
\* max messages are enqueued in all.
PollResultWithin(p, batch, tickAt, draw, max) ==
  /\ running[p] /\ loop[p] = "poll" /\ variant[p] = "v2"
  /\ HandlerEndWithin(p, HandleUpdates(p, HandlerState(p), batch, tickAt, draw),
                      tickAt, max)

\* The await of sendTelegramMessage for /start or /sessions ends (its result
\* is not used): the for loop goes on with the rest of the result.
CommandReplied(p, tickAt, draw) ==
  /\ running[p] /\ loop[p] = "reply" /\ variant[p] = "v2"
  /\ HandlerEnd(p, HandleUpdates(p, HandlerState(p), inbox[p], tickAt, draw), tickAt)

\* The sleep of startPollingLoop ends: while (pollingActive) pollTelegram().
Wake(p) ==
  /\ running[p] /\ loop[p] = "sleep"
  /\ loop' = [loop EXCEPT ![p] = IF pollingActive[p] THEN "poll" ELSE "stopped"]
  /\ UNCHANGED <<basevars, unitvars, CHAT_ID, running, registry, regFile,
                pollingActive, topicvars, lastUpdateId, processedUpdates, inbox,
                callvars, logvars>>
  /\ lastResp' = NoResp

\* shutdown(): pollingActive = false; registry.deactivate(SESSION_ID). What
\* it leaves of the registry object and the registry file.
shutdown(reg, file, sid) == deactivate(reg, file, sid)

\* SIGINT or SIGTERM: shutdown(), then process.exit(0), whose exit event
\* runs shutdown() a second time; the process is gone with its calls in
\* flight. registry[p] keeps the registry object as it was at the exit.
Shutdown(p) ==
  /\ running[p]
  /\ pollingActive' = [pollingActive EXCEPT ![p] = FALSE]
  /\ LET first == shutdown(registry[p], regFile, p)
         second == shutdown(first.reg, first.file, p)
     IN  /\ regFile' = second.file
         /\ registry' = [registry EXCEPT ![p] = second.reg]
  /\ running' = [running EXCEPT ![p] = FALSE]
  /\ loop' = [loop EXCEPT ![p] = "stopped"]
  /\ inbox' = [inbox EXCEPT ![p] = <<>>]
  /\ calls' = [calls EXCEPT ![p] = [c \in CallIds |-> IdleCall]]
  /\ UNCHANGED <<basevars, unitvars, CHAT_ID, topicvars, lastUpdateId,
                processedUpdates, retNow, afterRet, clean, logvars>>
  /\ lastResp' = NoResp

\* ------------------------------------------- the server with forum topics
\* A routing that ignores the topic of the message.
RouteIgnoringTopic(p, st, text, u, tickAt, draw) ==
  broadcastToSessions(p, st, text, u, tickAt, draw)

\* routeMessageToSession(text, sender, msgTopicId): a message in a topic goes
\* to the own queue when the topic map gives the topic to the own session and
\* nowhere otherwise; a message in General goes to broadcastToAllSessions,
\* whose code is that of broadcastToSessions.
routeMessageToSession(p, st, text, u, tickAt, draw) ==
  LET msgTopicId == Update(u).topic
      targetSessionId == buildTopicToSessionMap(topicMap)[msgTopicId]
  IN  IF msgTopicId # 0
      THEN IF targetSessionId = p
           THEN EnqueueInto(p, st, p, text, u, tickAt, draw)
           ELSE st
      ELSE broadcastToSessions(p, st, text, u, tickAt, draw)

\* The for loop of pollTelegram in the server with topics: the bot's own
\* messages are skipped, /start and /sessions are commands in General only.
RECURSIVE HandleUpdatesTopics(_, _, _, _, _)
HandleUpdatesTopics(p, st, batch, tickAt, draw) ==
  IF batch = <<>> THEN st
  ELSE
    LET u == Head(batch)
        st1 == [st EXCEPT !.lu = u + 1]
    IN  IF Has(st.pu, u)
          THEN HandleUpdatesTopics(p, [st1 EXCEPT !.skip = @ \cup {u}], Tail(batch),
                                   tickAt, draw)
        ELSE
          LET st2 == [st1 EXCEPT !.pu = AddEvict(@, u), !.ins = Append(@, u)]
              msg == Update(u)
          IN  IF msg.text = NoText
                THEN HandleUpdatesTopics(p, st2, Tail(batch), tickAt, draw)
              ELSE IF Unauthorized(msg.chat)
                THEN HandleUpdatesTopics(p, st2, Tail(batch), tickAt, draw)
              ELSE IF msg.is_bot
                THEN HandleUpdatesTopics(p, st2, Tail(batch), tickAt, draw)
              ELSE IF msg.topic = 0 /\ IsCommand(msg.text)
                THEN [st2 EXCEPT !.rest = Tail(batch), !.cmd = TRUE]
              ELSE HandleUpdatesTopics(p, routeMessageToSession(p, st2, msg.text, u,
                                                               tickAt, draw),
                                       Tail(batch), tickAt, draw)

\* updateTopicId(sessionId, tid): the topic id on a known entry, save. The
\* topic id of an entry is read by nothing modelled here; the save is kept.
updateTopicId(reg, file, sid) ==
  IF reg[sid].known THEN SR_save(reg) ELSE file

\* startPollingLoop of the server with topics: the flush answers, then
\* ensureTopic runs up to its await. Without a chat id it returns null; with
\* an entry in the topic map it reuses the topic; otherwise it keeps the map
\* it has read and asks the transport for a new topic.
FlushResponseTopics(p, last) ==
  /\ running[p] /\ loop[p] = "flush" /\ variant[p] = "topics"
  /\ lastUpdateId' = [lastUpdateId EXCEPT ![p] = IF last = 0 THEN @ ELSE last + 1]
  /\ IF CHAT_ID = ""
     THEN /\ loop' = [loop EXCEPT ![p] = "poll"]
          /\ UNCHANGED <<regFile, topicDraft>>
     ELSE IF topicMap[p] # 0
     THEN /\ loop' = [loop EXCEPT ![p] = "poll"]
          /\ regFile' = updateTopicId(registry[p], regFile, p)
          /\ UNCHANGED topicDraft
     ELSE /\ loop' = [loop EXCEPT ![p] = "topic"]
          /\ topicDraft' = [topicDraft EXCEPT ![p] = topicMap]
          /\ UNCHANGED regFile
  /\ UNCHANGED <<basevars, unitvars, CHAT_ID, running, registry, pollingActive,
                variant, topicMap, processedUpdates, inbox, callvars, logvars>>
  /\ lastResp' = NoResp

\* ensureTopic after its await: createForumTopic answered (ok) or failed. On
\* success the map read before the await, with the own entry added, replaces
\* the topic map file, and the registry entry is saved.
EnsureTopicDone(p, ok) ==
  /\ running[p] /\ loop[p] = "topic"
  /\ IF ok
     THEN /\ topicMap' = [topicDraft[p] EXCEPT ![p] = TopicOf[p]]
          /\ regFile' = updateTopicId(registry[p], regFile, p)
     ELSE UNCHANGED <<topicMap, regFile>>
  /\ loop' = [loop EXCEPT ![p] = "poll"]
  /\ UNCHANGED <<basevars, unitvars, CHAT_ID, running, registry, pollingActive,
                variant, topicDraft, lastUpdateId, processedUpdates, inbox,
                callvars, logvars>>
  /\ lastResp' = NoResp

\* pollTelegram of the server with topics: the answer to getUpdates arrives.
PollResponseTopics(p, kind, batch, tickAt, draw) ==
  /\ running[p] /\ loop[p] = "poll" /\ variant[p] = "topics"
  /\ HandlerEnd(p, IF kind = "ok"
                    THEN HandleUpdatesTopics(p, HandlerState(p), batch, tickAt, draw)
                    ELSE HandlerState(p), tickAt)

\* The await of sendToGeneral for /start or /sessions ends.
CommandRepliedTopics(p, tickAt, draw) ==
  /\ running[p] /\ loop[p] = "reply" /\ variant[p] = "topics"
  /\ HandlerEnd(p, HandleUpdatesTopics(p, HandlerState(p), inbox[p], tickAt, draw),
                tickAt)

\* ------------------------------------------------------------- the tools
\* msgs.map((m) => ({ text: m.text, ts: m.ts }))
Slim(msgs) == [i \in 1..Len(msgs) |-> [text |-> msgs[i].text, ts |-> msgs[i].ts]]
UidSeq(msgs) == [i \in 1..Len(msgs) |-> msgs[i].uid]

\* A failed send that the handler does not notice.
SendFailedIgnored(ok) == FALSE

\* if (!ok) return { ok: false, error: "send failed", now }
SendFailed(ok) == ~ok

\* const count = sinceTs ? queue.pendingCountSince(sinceTs) : queue.pendingCount()
QualifyingCount(q, sinceTs) ==
  IF sinceTs # 0 THEN pendingCountSince(q, sinceTs) ELSE pendingCount(q)

\* A drain that hands out the pending messages and leaves them pending.
CollectNoClear(q, file, sinceTs) ==
  [q |-> q, file |-> file, msgs |-> q.pending]

\* A drain that hands out the stale part of pollSince instead of the fresh.
CollectStaleOnly(q, file, sinceTs) ==
  IF sinceTs # 0
  THEN [pollSince(q, file, sinceTs) EXCEPT !.msgs = StaleOf(q.pending, sinceTs)]
  ELSE poll(q, file)

\* A drain whose pollSince leaves the stale messages pending.
CollectLeavingStale(q, file, sinceTs) ==
  IF sinceTs # 0 THEN PollSinceKeepStale(q, file, sinceTs) ELSE poll(q, file)

\* Step 3 of interact: pollSince(sinceTs) when since_ts was given, else poll().
Collect(q, file, sinceTs) ==
  IF sinceTs # 0 THEN pollSince(q, file, sinceTs) ELSE poll(q, file)

\* Steps 3 and on of interact: drain, build the response, return it.
Drain(p, c, call) ==
  LET r == Collect(queue[p], qfile[p], call.sinceTs)
  IN  /\ queue' = [queue EXCEPT ![p] = r.q]
      /\ qfile' = [qfile EXCEPT ![p] = r.file]
      /\ returned' = [returned EXCEPT ![p] = @ \o UidSeq(r.msgs)]
      /\ lastResp' =
           [proc |-> p, tool |-> "interact", ok |-> TRUE,
            error |-> "none", now |-> call.nowRead,
            sinceTs |-> call.sinceTs, messages |-> Slim(r.msgs),
            uids |-> UidSeq(r.msgs), pending |-> pendingCount(r.q),
            follows |-> call.sinceTs = retNow[p] /\ retNow[p] > 0 /\ clean[p],
            expect |-> afterRet[p], wait |-> call.wait,
            arrived |-> call.arrived,
            text |-> call.text, sent |-> Truthy(call.text)]
      /\ calls' = [calls EXCEPT ![p][c] = IdleCall]
      /\ retNow' = [retNow EXCEPT ![p] = call.nowRead]
      /\ afterRet' = [afterRet EXCEPT ![p] = <<>>]
      /\ clean' = [clean EXCEPT ![p] = TRUE]

\* Step 2 of interact: the first pass of the wait loop runs in the same turn;
\* without a wait, or with a qualifying message already there, step 3 follows.
AfterSend(p, c, call) ==
  IF call.wait > 0 /\ QualifyingCount(queue[p], call.sinceTs) = 0
  THEN /\ calls' = [calls EXCEPT ![p][c] =
                      [call EXCEPT !.pc = "wait", !.deadline = now + call.wait]]
       /\ UNCHANGED <<queue, qfile, returned, retNow, afterRet, clean>>
       /\ lastResp' = NoResp
  ELSE Drain(p, c, call)

\* A clock read one second behind.
NowOfCallBehind(clock) == clock - 1

\* const now = Math.floor(Date.now() / 1000), first statement of interact.
NowOfCall(clock) == clock

\* interact({message?, wait?, since_ts?}) arrives: now is read, then step 1;
\* text is the message argument, Absent when there is none.
InteractText(p, c, text, wait, sinceTs) ==
  /\ running[p] /\ FreeSlot(p, c)
  /\ LET call == [pc |-> "idle", tool |-> "interact", wait |-> wait,
                  sinceTs |-> sinceTs, deadline |-> 0, nowRead |-> NowOfCall(now),
                  arrived |-> <<>>, text |-> text]
     IN  IF Truthy(text)
         THEN /\ calls' = [calls EXCEPT ![p][c] = [call EXCEPT !.pc = "send"]]
              /\ UNCHANGED <<queue, qfile, returned, retNow, afterRet, clean>>
              /\ lastResp' = NoResp
         ELSE AfterSend(p, c, call)
  /\ UNCHANGED <<now, nextUid, unitvars, procvars, logvars>>

\* interact with a message of some text (hasMsg) or without the argument.
InteractCall(p, c, hasMsg, wait, sinceTs) ==
  InteractText(p, c, IF hasMsg THEN "hi" ELSE Absent, wait, sinceTs)

\* The await of sendTelegramMessage in step 1 ends with ok.
SendDone(p, c, ok) ==
  /\ running[p] /\ calls[p][c].pc = "send"
  /\ IF SendFailed(ok)
     THEN /\ lastResp' =
               [NoResp EXCEPT !.proc = p, !.tool = "interact",
                              !.error = "send failed",
                              !.now = calls[p][c].nowRead,
                              !.sinceTs = calls[p][c].sinceTs,
                              !.wait = calls[p][c].wait,
                              !.text = calls[p][c].text]
          /\ calls' = [calls EXCEPT ![p][c] = IdleCall]
          /\ UNCHANGED <<queue, qfile, returned, retNow, afterRet, clean>>
     ELSE AfterSend(p, c, calls[p][c])
  /\ UNCHANGED <<now, nextUid, unitvars, procvars, logvars>>

\* The 500 ms sleep of the wait loop ends: the loop leaves on the deadline or
\* on a qualifying message, and step 3 follows; otherwise it sleeps again.
WaitWake(p, c) ==
  /\ running[p] /\ calls[p][c].pc = "wait" /\ calls[p][c].tool = "interact"
  /\ \/ now >= calls[p][c].deadline
     \/ QualifyingCount(queue[p], calls[p][c].sinceTs) > 0
  /\ Drain(p, c, calls[p][c])
  /\ UNCHANGED <<now, nextUid, unitvars, procvars, logvars>>

\* What the legacy tools answer with the messages of a poll().
LegacyPoll(p, c, tool) ==
  LET r == poll(queue[p], qfile[p])
  IN  /\ queue' = [queue EXCEPT ![p] = r.q]
      /\ qfile' = [qfile EXCEPT ![p] = r.file]
      /\ returned' = [returned EXCEPT ![p] = @ \o UidSeq(r.msgs)]
      /\ lastResp' = [NoResp EXCEPT !.proc = p, !.tool = tool,
                                     !.ok = TRUE, !.now = now,
                                     !.messages = Slim(r.msgs),
                                     !.uids = UidSeq(r.msgs)]
      /\ calls' = [calls EXCEPT ![p][c] = IdleCall]
      /\ clean' = [clean EXCEPT ![p] = FALSE]
      /\ UNCHANGED <<retNow, afterRet>>

\* poll_messages
PollMessages(p, c) ==
  /\ running[p] /\ FreeSlot(p, c)
  /\ LegacyPoll(p, c, "poll_messages")
  /\ UNCHANGED <<now, nextUid, unitvars, procvars, logvars>>

\* wait_for_reply({timeout}): the first pass of its loop runs in the same turn.
WaitForReplyCall(p, c, timeout) ==
  /\ running[p] /\ FreeSlot(p, c)
  /\ IF pendingCount(queue[p]) > 0
     THEN LegacyPoll(p, c, "wait_for_reply")
     ELSE /\ calls' = [calls EXCEPT ![p][c] =
                         [IdleCall EXCEPT !.pc = "wait", !.tool = "wait_for_reply",
                                          !.wait = timeout, !.deadline = now + timeout]]
          /\ UNCHANGED <<queue, qfile, returned, retNow, afterRet, clean>>
          /\ lastResp' = NoResp
  /\ UNCHANGED <<now, nextUid, unitvars, procvars, logvars>>

\* The sleep of wait_for_reply ends: past the deadline it answers
\* {timeout: true}; before it, it polls once something is pending.
WaitForReplyWake(p, c) ==
  /\ running[p] /\ calls[p][c].pc = "wait" /\ calls[p][c].tool = "wait_for_reply"
  /\ IF now >= calls[p][c].deadline
     THEN /\ lastResp' = [NoResp EXCEPT !.proc = p,
                                         !.tool = "wait_for_reply",
                                         !.error = "timeout", !.now = now]
          /\ calls' = [calls EXCEPT ![p][c] = IdleCall]
          /\ UNCHANGED <<queue, qfile, returned, retNow, afterRet, clean>>
     ELSE /\ pendingCount(queue[p]) > 0
          /\ LegacyPoll(p, c, "wait_for_reply")
  /\ UNCHANGED <<now, nextUid, unitvars, procvars, logvars>>

\* send_message({text}): without a text the answer is {"error":"empty
\* message"} at once; otherwise sendTelegramMessage is awaited.
SendMessageCall(p, c, text) ==
  /\ running[p] /\ FreeSlot(p, c)
  /\ IF ~Truthy(text)
     THEN /\ lastResp' = [NoResp EXCEPT !.proc = p, !.tool = "send_message",
                                         !.error = "empty message", !.text = text]
          /\ UNCHANGED calls
     ELSE /\ calls' = [calls EXCEPT ![p][c] =
                         [IdleCall EXCEPT !.pc = "legacysend", !.tool = "send_message",
                                          !.text = text]]
          /\ lastResp' = NoResp
  /\ UNCHANGED <<basevars, unitvars, procvars, retNow, afterRet, clean, logvars>>

\* The await of sendTelegramMessage in send_message ends with ok: the
\* answer is {sent: ok, now}.
SendMessageDone(p, c, ok) ==
  /\ running[p] /\ calls[p][c].pc = "legacysend"
  /\ lastResp' = [NoResp EXCEPT !.proc = p, !.tool = "send_message", !.ok = ok,
                                 !.now = now, !.text = calls[p][c].text, !.sent = ok]
  /\ calls' = [calls EXCEPT ![p][c] = IdleCall]
  /\ UNCHANGED <<basevars, unitvars, procvars, retNow, afterRet, clean, logvars>>

\* What check_status answers: {pending: queue.pendingCount(), now}.
StatusAnswer(p, c) ==
  /\ lastResp' = [NoResp EXCEPT !.proc = p, !.tool = "check_status", !.ok = TRUE,
                                 !.now = now, !.pending = pendingCount(queue[p]),
                                 !.wait = calls[p][c].wait]
  /\ calls' = [calls EXCEPT ![p][c] = IdleCall]

\* check_status({wait}): without a wait, or with something pending, the
\* answer is given at once; otherwise the call sleeps in its loop.
CheckStatusCall(p, c, wait) ==
  /\ running[p] /\ FreeSlot(p, c)
  /\ IF wait > 0 /\ pendingCount(queue[p]) = 0
     THEN /\ calls' = [calls EXCEPT ![p][c] =
                         [IdleCall EXCEPT !.pc = "wait", !.tool = "check_status",
                                          !.wait = wait, !.deadline = now + wait]]
          /\ lastResp' = NoResp
     ELSE /\ lastResp' = [NoResp EXCEPT !.proc = p, !.tool = "check_status",
                                         !.ok = TRUE, !.now = now,
                                         !.pending = pendingCount(queue[p]),
                                         !.wait = wait]
          /\ UNCHANGED calls
  /\ UNCHANGED <<basevars, unitvars, procvars, retNow, afterRet, clean, logvars>>

\* The sleep of check_status ends: the loop leaves on the deadline or when
\* something is pending, and the answer is given.
CheckStatusWake(p, c) ==
  /\ running[p] /\ calls[p][c].pc = "wait" /\ calls[p][c].tool = "check_status"
  /\ \/ now >= calls[p][c].deadline
     \/ pendingCount(queue[p]) # 0
  /\ StatusAnswer(p, c)
  /\ UNCHANGED <<basevars, unitvars, procvars, retNow, afterRet, clean, logvars>>

\* queue.pendingCount() and queue.pendingCountSince(sinceTs) called on the
\* process's queue object; the number returned is kept in pending.
PendingCountCall(p) ==
  /\ running[p]
  /\ lastResp' = [NoResp EXCEPT !.proc = p, !.tool = "pendingCount",
                                 !.pending = pendingCount(queue[p])]
  /\ UNCHANGED <<basevars, unitvars, procvars, callvars, logvars>>

PendingCountSinceCall(p, sinceTs) ==
  /\ running[p]
  /\ lastResp' = [NoResp EXCEPT !.proc = p, !.tool = "pendingCountSince",
                                 !.sinceTs = sinceTs,
                                 !.pending = pendingCountSince(queue[p], sinceTs)]
  /\ UNCHANGED <<basevars, unitvars, procvars, callvars, logvars>>

\* ----------------------------------------------- one process and its agent
InitBridge ==
  /\ now = 1
  /\ CHAT_ID = AuthChat
  /\ InitDown
  /\ InitHistory

FixedDraw == [k \in 1..MaxEnq |-> "0a1b2c3d"]
TextUpdates ==
  {u \in UpdateIds : /\ Update(u).chat = AuthChat /\ Update(u).text \in Texts
                     /\ Update(u).topic = 0}

\* Session A's process with a transport that honours the offset: it
\* delivers the human's text messages one a result, none below the cursor.
IngestText ==
  \/ Start("A")
  \/ FlushResponse("A", 0)
  \/ \E u \in TextUpdates :
       /\ u >= lastUpdateId["A"]
       /\ PollResponse("A", "ok", <<u>>, 0, FixedDraw)
  \/ Wake("A")

\* The agent makes one call at a time: interact in all its forms, and the
\* legacy poll_messages and wait_for_reply.
NextFacade ==
  \/ Tick
  \/ IngestText
  \/ \E hasMsg \in BOOLEAN, wait \in Waits, sinceTs \in 0..MaxTime :
       InteractCall("A", "c1", hasMsg, wait, sinceTs)
  \/ \E ok \in BOOLEAN : SendDone("A", "c1", ok)
  \/ WaitWake("A", "c1")
  \/ PollMessages("A", "c1")
  \/ \E timeout \in Waits \ {0} : WaitForReplyCall("A", "c1", timeout)
  \/ WaitForReplyWake("A", "c1")

SpecFacade == InitBridge /\ [][NextFacade]_vars

\* The same, with the scheduling the runtime gives: time passes, and the
\* timer of the wait loop (setTimeout, 500 ms) fires.
SpecWait ==
  /\ InitBridge /\ [][NextFacade]_vars
  /\ WF_vars(Tick) /\ WF_vars(WaitWake("A", "c1"))

\* Two calls in flight at the same time: interact calls that wait (with or
\* without since_ts), poll_messages and wait_for_reply.
NextWaiters ==
  \/ Tick
  \/ IngestText
  \/ \E c \in CallIds, wait \in Waits, sinceTs \in 0..MaxTime :
       InteractCall("A", c, FALSE, wait, sinceTs)
  \/ \E c \in CallIds : WaitWake("A", c)
  \/ \E c \in CallIds : PollMessages("A", c)
  \/ \E c \in CallIds, timeout \in Waits \ {0} : WaitForReplyCall("A", c, timeout)
  \/ \E c \in CallIds : WaitForReplyWake("A", c)

SpecWaiters == InitBridge /\ [][NextWaiters]_vars

\* ------------------------------------------- the ingestion loop on its own
\* One process, whose chat filter is configured or not, and a transport that
\* answers getUpdates with anything: errors, results in any order, repeats.
\* A text, a message of another chat, an update without text, a command.
IngestIds == {1, 2, 4, 5}

InitIngest ==
  /\ now = 1
  /\ CHAT_ID \in {NoText, AuthChat}
  /\ InitDown
  /\ InitHistory

NextIngest ==
  \/ Tick
  \/ Start("A")
  \/ \E last \in {0} \cup IngestIds : FlushResponse("A", last)
  \/ PollResponse("A", "error", <<>>, 0, FixedDraw)
  \/ PollResponse("A", "notok", <<>>, 0, FixedDraw)
  \/ \E batch \in Batches(IngestIds), tickAt \in {0, 1} :
       PollResponse("A", "ok", batch, tickAt, FixedDraw)
  \/ \E tickAt \in {0, 1} : CommandReplied("A", tickAt, FixedDraw)
  \/ Wake("A")

SpecIngest == InitIngest /\ [][NextIngest]_vars

\* ------------------------------------------------- two sessions, two processes
\* The identifiers the enqueues of one handler run can draw: the same value
\* every time, or two values in turn.
Draws ==
  {[k \in 1..MaxEnq |-> "0a1b2c3d"],
   [k \in 1..MaxEnq |-> IF k % 2 = 1 THEN "0a1b2c3d" ELSE "4e5f6a7b"]}

\* Sessions A and B, each in a process of its own on the same data
\* directory and the same bot; the transport honours each process's offset;
\* each agent checks for messages with interact() without arguments.
NextMulti ==
  \/ Tick
  \/ \E p \in Sessions : Start(p)
  \/ \E p \in Sessions : FlushResponse(p, 0)
  \/ \E p \in Sessions, u \in TextUpdates, tickAt \in {0, 2}, draw \in Draws :
       /\ u >= lastUpdateId[p]
       /\ PollResponse(p, "ok", <<u>>, tickAt, draw)
  \/ \E p \in Sessions : Wake(p)
  \/ \E p \in Sessions : InteractCall(p, "c1", FALSE, 0, 0)

SpecMulti == InitBridge /\ [][NextMulti]_vars

\* -------------------------------------------- commands, with and without topics
\* The updates of the forum: text and /start in General, text in the topics
\* of A and B, /start in the topic of A.
CommandUpdates == {1, 5, 7, 8, 9}

\* One update a result, or /sessions in General followed by a message, or a
\* message of the bot itself.
CommandBatches == {<<u>> : u \in CommandUpdates} \cup {<<6, 7>>, <<10>>}

\* Session A's process, which runs the server without topics or the server
\* with topics; the transport delivers the updates above the offset.
NextCommands ==
  \/ Tick
  \/ Start("A")
  \/ StartTopics("A")
  \/ FlushResponse("A", 0)
  \/ FlushResponseTopics("A", 0)
  \/ \E ok \in BOOLEAN : EnsureTopicDone("A", ok)
  \/ \E batch \in CommandBatches :
       /\ Head(batch) >= lastUpdateId["A"]
       /\ PollResponse("A", "ok", batch, 0, FixedDraw)
  \/ \E batch \in CommandBatches :
       /\ Head(batch) >= lastUpdateId["A"]
       /\ PollResponseTopics("A", "ok", batch, 0, FixedDraw)
  \/ CommandReplied("A", 0, FixedDraw)
  \/ CommandRepliedTopics("A", 0, FixedDraw)
  \/ Wake("A")

SpecCommands == InitBridge /\ [][NextCommands]_vars

\* ------------------------------------------------ two sessions with topics
\* Text in General, text in the topic of A and in the topic of B.
TopicUpdates == {1, 7, 8}

\* Sessions A and B, each in a process of its own that runs the server with
\* topics, on the same data directory and the same bot; the transport
\* delivers each process the updates above its offset.
NextTopics ==
  \/ \E p \in Sessions : StartTopics(p)
  \/ \E p \in Sessions : FlushResponseTopics(p, 0)
  \/ \E p \in Sessions, ok \in BOOLEAN : EnsureTopicDone(p, ok)
  \/ \E p \in Sessions, u \in TopicUpdates :
       /\ u >= lastUpdateId[p]
       /\ PollResponseTopics(p, "ok", <<u>>, 0, FixedDraw)
  \/ \E p \in Sessions : Wake(p)

SpecTopics == InitBridge /\ [][NextTopics]_vars

\* ------------------------------------------------------ the startup flush
\* The updates the transport holds when the process starts, and the ones
\* that come later.
Backlog == {1}
LaterUpdates == {3}

\* What the transport answers to getUpdates with this offset: held updates
\* at or above the offset, in ascending order.
Answers(offset) ==
  {b \in Batches(Backlog \cup LaterUpdates) :
     /\ \A i \in 1..Len(b) : b[i] >= offset
     /\ \A i \in 1..Len(b) : \A j \in 1..Len(b) : i < j => b[i] < b[j]}

\* Session A's process started on a transport that holds a backlog: the
\* flush request (offset -1) is answered with the newest held update, or
\* fails; every later request is answered from the offset.
NextStartup ==
  \/ Tick
  \/ Start("A")
  \/ FlushResponse("A", CHOOSE u \in Backlog : \A v \in Backlog : v <= u)
  \/ FlushResponse("A", 0)
  \/ PollResponse("A", "error", <<>>, 0, FixedDraw)
  \/ \E batch \in Answers(lastUpdateId["A"]), tickAt \in {0, 1} :
       PollResponse("A", "ok", batch, tickAt, FixedDraw)
  \/ Wake("A")
  \/ InteractCall("A", "c1", FALSE, 0, 0)

SpecStartup == InitBridge /\ [][NextStartup]_vars

\* ------------------------------------------------------- the outbound send
\* What one sendMessage request to the remote API can do: answer ok, answer
\* not ok, or fail (network error, timeout, unparsable answer: tgApi rejects).
Outcomes == {"ok", "notok", "throw"}

\* sendTelegramMessage without its catch.
SendNoCatch(token, chat, r1, r2) ==
  IF ~token \/ chat = ""
  THEN [result |-> FALSE, attempts |-> <<>>, thrown |-> FALSE]
  ELSE IF r1 = "throw"
  THEN [result |-> FALSE, attempts |-> <<"Markdown">>, thrown |-> TRUE]
  ELSE IF r1 = "ok"
  THEN [result |-> TRUE, attempts |-> <<"Markdown">>, thrown |-> FALSE]
  ELSE [result |-> r2 = "ok", attempts |-> <<"Markdown", "plain">>,
        thrown |-> r2 = "throw"]

\* sendTelegramMessage(text): token is whether BOT_TOKEN is set, chat is
\* CHAT_ID, r1 and r2 are what the first and the second request would do.
\* attempts lists the requests made, by parse mode; thrown is whether the
\* function throws to its caller.
sendTelegramMessage(token, chat, r1, r2) ==
  IF ~token \/ chat = ""
  THEN [result |-> FALSE, attempts |-> <<>>, thrown |-> FALSE]
  ELSE IF r1 = "throw"
  THEN [result |-> FALSE, attempts |-> <<"Markdown">>, thrown |-> FALSE]
  ELSE IF r1 = "ok"
  THEN [result |-> TRUE, attempts |-> <<"Markdown">>, thrown |-> FALSE]
  ELSE IF r2 = "throw"
  THEN [result |-> FALSE, attempts |-> <<"Markdown", "plain">>, thrown |-> FALSE]
  ELSE [result |-> r2 = "ok", attempts |-> <<"Markdown", "plain">>,
        thrown |-> FALSE]

\* One call of sendTelegramMessage; op keeps its inputs, ret what it did.
SendCall(token, r1, r2) ==
  /\ prevOp' = op
  /\ op' = [name |-> "sendTelegramMessage",
            arg |-> [token |-> token, chat |-> CHAT_ID, r1 |-> r1, r2 |-> r2]]
  /\ ret' = sendTelegramMessage(token, CHAT_ID, r1, r2)
  /\ UNCHANGED <<basevars, expectPending, lastDrain, deliveredLog, dropped, beat,
                procvars, callvars, logvars>>
  /\ lastResp' = NoResp

NextSend == \E token \in BOOLEAN, r1 \in Outcomes, r2 \in Outcomes : SendCall(token, r1, r2)

\* The function called with any configuration and any remote behaviour.
InitSend ==
  /\ now = 1
  /\ CHAT_ID \in {"", AuthChat}
  /\ InitDown
  /\ InitHistory

SpecSend == InitSend /\ [][NextSend]_vars

\* ------------------------------------------------------ outbound text
\* The outbound text an agent passes: none, the empty string, some text.
OutboundTexts == {Absent, "", "hi"}

\* Session A's process and an agent that sends with interact and with the
\* legacy send_message, one call at a time.
NextOutbound ==
  \/ Tick
  \/ IngestText
  \/ \E text \in OutboundTexts, wait \in Waits :
       InteractText("A", "c1", text, wait, 0)
  \/ \E ok \in BOOLEAN : SendDone("A", "c1", ok)
  \/ WaitWake("A", "c1")
  \/ \E text \in OutboundTexts : SendMessageCall("A", "c1", text)
  \/ \E ok \in BOOLEAN : SendMessageDone("A", "c1", ok)

SpecOutbound == InitBridge /\ [][NextOutbound]_vars

\* ------------------------------------------------- the wait argument
\* The cap of the wait, in seconds.
MAX_WAIT == 300

\* A value that is not a number, and a number.
NaN == [nan |-> TRUE, val |-> 0]
Num(n) == [nan |-> FALSE, val |-> n]

DigitVal(c) ==
  CASE c = "0" -> 0 [] c = "1" -> 1 [] c = "2" -> 2 [] c = "3" -> 3 [] c = "4" -> 4
    [] c = "5" -> 5 [] c = "6" -> 6 [] c = "7" -> 7 [] c = "8" -> 8 [] c = "9" -> 9
    [] OTHER -> 0 - 1

\* The digits at the head of chars, as a number; NaN when there is none.
RECURSIVE DigitsPrefix(_, _, _)
DigitsPrefix(chars, acc, seen) ==
  IF chars # <<>> /\ DigitVal(Head(chars)) >= 0
  THEN DigitsPrefix(Tail(chars), 10 * acc + DigitVal(Head(chars)), TRUE)
  ELSE IF seen THEN Num(acc) ELSE NaN

RECURSIVE SkipBlanks(_)
SkipBlanks(chars) ==
  IF chars # <<>> /\ Head(chars) = " " THEN SkipBlanks(Tail(chars)) ELSE chars

\* parseInt(x, 10): x is an argument, given or not, written as the
\* characters of String(x). Leading blanks are skipped, a sign is read, then
\* the digits up to the first character that is not one.
parseInt(x) ==
  IF ~x.given THEN NaN
  ELSE LET t == SkipBlanks(x.chars)
       IN  IF t # <<>> /\ Head(t) = "-"
           THEN LET d == DigitsPrefix(Tail(t), 0, FALSE)
                IN  IF d.nan THEN NaN ELSE Num(0 - d.val)
           ELSE IF t # <<>> /\ Head(t) = "+" THEN DigitsPrefix(Tail(t), 0, FALSE)
           ELSE DigitsPrefix(t, 0, FALSE)

\* v || 0 for the result of parseInt: NaN and 0 are falsy.
OrZero(v) == IF v.nan \/ v.val = 0 THEN 0 ELSE v.val

MathMax(a, b) == IF a >= b THEN a ELSE b
MathMin(a, b) == IF a <= b THEN a ELSE b

\* A wait without the upper clamp.
WaitNoCap(x) == MathMax(OrZero(parseInt(x)), 0)

\* const wait = Math.min(Math.max(parseInt(args?.wait, 10) || 0, 0), 300)
EffectiveWait(x) == MathMin(MathMax(OrZero(parseInt(x)), 0), MAX_WAIT)

\* The wait arguments an agent can pass, each with what it is: missing, not
\* a number, negative, within 0..300 (with its value), above 300, a number
\* with a fraction, a number followed by text.
WaitArg(given, chars, class, value) ==
  [given |-> given, chars |-> chars, class |-> class, value |-> value]

WaitArgs ==
  {WaitArg(FALSE, <<>>, "missing", 0),
   WaitArg(TRUE, <<>>, "nonnumeric", 0),
   WaitArg(TRUE, <<"a", "b", "c">>, "nonnumeric", 0),
   WaitArg(TRUE, <<"N", "a", "N">>, "nonnumeric", 0),
   WaitArg(TRUE, <<"-", "5">>, "negative", 0 - 5),
   WaitArg(TRUE, <<"-", "1">>, "negative", 0 - 1),
   WaitArg(TRUE, <<"0">>, "inrange", 0),
   WaitArg(TRUE, <<"1">>, "inrange", 1),
   WaitArg(TRUE, <<" ", "7">>, "inrange", 7),
   WaitArg(TRUE, <<"3", "0", "0">>, "inrange", 300),
   WaitArg(TRUE, <<"3", "0", "1">>, "above", 301),
   WaitArg(TRUE, <<"9", "9", "9", "9">>, "above", 9999),
   WaitArg(TRUE, <<"2", ".", "7">>, "fraction", 2),
   WaitArg(TRUE, <<"1", "2", "s">>, "suffixed", 12)}

\* interact reads its wait argument; op keeps the argument, ret the wait.
WaitRead(x) ==
  /\ prevOp' = op
  /\ op' = [name |-> "wait", arg |-> x]
  /\ ret' = EffectiveWait(x)
  /\ UNCHANGED <<basevars, expectPending, lastDrain, deliveredLog, dropped, beat,
                procvars, callvars, logvars>>
  /\ lastResp' = NoResp

NextWaitArg == \E x \in WaitArgs : WaitRead(x)

SpecWaitArg == InitBridge /\ [][NextWaitArg]_vars

\* --------------------------------------- two processes, the same updates
\* Sessions A and B, each in a process of its own on the same data directory
\* and the same bot, both long-polling: the transport gives an update to
\* every process whose offset is not past it. One copy more than MaxEnq can
\* be enqueued, so that both processes can fan one update out.
NextShared ==
  \/ \E p \in Sessions : Start(p)
  \/ \E p \in Sessions : FlushResponse(p, 0)
  \/ \E p \in Sessions, u \in {1, 3} :
       /\ u >= lastUpdateId[p]
       /\ PollResultWithin(p, <<u>>, 0, FixedDraw, MaxEnq + 1)
  \/ \E p \in Sessions : Wake(p)

SpecShared == InitBridge /\ [][NextShared]_vars

\* ----------------------------------------------- two processes, shutdown
\* Sessions A and B, each in a process of its own on the same data
\* directory, started, polling and shut down by a signal in any order, within one
\* second of the clock.
NextShutdown ==
  \/ \E p \in Sessions : Start(p)
  \/ \E p \in Sessions : FlushResponse(p, 0)
  \/ \E p \in Sessions : PollResponse(p, "ok", <<>>, 0, FixedDraw)
  \/ \E p \in Sessions :
       /\ 1 >= lastUpdateId[p]
       /\ PollResponse(p, "ok", <<1>>, 0, FixedDraw)
  \/ \E p \in Sessions : Wake(p)
  \/ \E p \in Sessions : Shutdown(p)

SpecShutdown == InitBridge /\ [][NextShutdown]_vars

\* ------------------------------------------ a session stopped and restarted
\* Sessions A and B in two processes on the same data directory. B's
\* process handles the human's messages; A's process is shut down and
\* started again at any point, and A's agent polls with interact().
RestartUpdates == {1, 3}

NextRestart ==
  \/ \E p \in Sessions : Start(p)
  \/ \E p \in Sessions : FlushResponse(p, 0)
  \/ \E u \in RestartUpdates :
       /\ u >= lastUpdateId["B"]
       /\ PollResultWithin("B", <<u>>, 0, FixedDraw, 2 * Cardinality(RestartUpdates))
  \/ PollResponse("A", "ok", <<>>, 0, FixedDraw)
  \/ \E p \in Sessions : Wake(p)
  \/ Shutdown("A")
  \/ InteractCall("A", "c1", FALSE, 0, 0)

SpecRestart == InitBridge /\ [][NextRestart]_vars

\* ------------------------------------------------- a transport that fails
\* Session A's process with a transport that honours the offset and, at any
\* tick, may throw, answer not ok, or answer with an empty result, at once
\* or a second later; the timer of the loop's sleep fires; the agent polls.
FailKinds == {"error", "notok", "ok"}

NextTransport ==
  \/ Tick
  \/ Start("A")
  \/ FlushResponse("A", 0)
  \/ \E kind \in FailKinds, tickAt \in {0, 1} :
       PollResponse("A", kind, <<>>, tickAt, FixedDraw)
  \/ \E u \in TextUpdates :
       /\ u >= lastUpdateId["A"]
       /\ PollResponse("A", "ok", <<u>>, 0, FixedDraw)
  \/ Wake("A")
  \/ InteractCall("A", "c1", FALSE, 0, 0)

SpecTransport == InitBridge /\ [][NextTransport]_vars /\ WF_vars(Wake("A"))

\* ------------------------------------------------- counting what is pending
\* Session A's process while the human's messages come in: the agent asks
\* check_status with or without a wait, the counts of the queue object are
\* read directly, and poll_messages or interact() empties the queue.
NextStatus ==
  \/ Tick
  \/ IngestText
  \/ \E wait \in Waits : CheckStatusCall("A", "c1", wait)
  \/ CheckStatusWake("A", "c1")
  \/ PendingCountCall("A")
  \/ \E sinceTs \in 0..MaxTime : PendingCountSinceCall("A", sinceTs)
  \/ PollMessages("A", "c1")
  \/ InteractCall("A", "c1", FALSE, 0, 0)

SpecStatus == InitBridge /\ [][NextStatus]_vars

\* -------------------------------------------------------- the dedup set
\* Session A's process and a transport that gives updates of its choice,
\* one or two a result, repeats included: two texts, a message of another
\* chat and an update without text.
DedupIds == {1, 2, 3, 4}

NextDedup ==
  \/ Start("A")
  \/ FlushResponse("A", 0)
  \/ \E batch \in Batches(DedupIds) : PollResponse("A", "ok", batch, 0, FixedDraw)
  \/ Wake("A")

SpecDedup == InitBridge /\ [][NextDedup]_vars

\* ------------------------------------------------ no chat id configured
\* Session A's process started without TELEGRAM_CHAT_ID, and a transport
\* that gives it text messages of two chats, one or two a result, repeats
\* included.
OpenIds == {1, 2}

InitOpen ==
  /\ now = 1
  /\ CHAT_ID = NoText
  /\ InitDown
  /\ InitHistory

NextOpen ==
  \/ Tick
  \/ Start("A")
  \/ FlushResponse("A", 0)
  \/ \E batch \in Batches(OpenIds), tickAt \in {0, 1} :
       PollResponse("A", "ok", batch, tickAt, FixedDraw)
  \/ Wake("A")
  \/ InteractCall("A", "c1", FALSE, 0, 0)

SpecOpen == InitOpen /\ [][NextOpen]_vars

\* ------------------------------------------------------------------ claims
\* C1: poll() returns exactly the messages enqueued since the last drain, in
\* the order of the enqueue calls, and a poll() right after a poll() returns
\* the empty list.
C1_PollFifo ==
  /\ op.name = "poll" => ret = lastDrain
  /\ (op.name = "poll" /\ prevOp.name = "poll") => ret = <<>>

\* A poll that returned two messages enqueued by two calls.
C1_Witness ==
  /\ op.name = "poll"
  /\ Len(ret) = 2
  /\ ret[1].uid < ret[2].uid

\* C6: pollSince(sinceTs) with sinceTs > 0 returns exactly the pending
\* messages with ts > sinceTs in pending order, leaves nothing pending, and
\* no message it drained as stale is ever returned by a poll or pollSince.
C6_PollSinceDrains ==
  /\ (op.name = "pollSince" /\ op.arg > 0) =>
        /\ ret = SelectSeq(lastDrain, LAMBDA m : m.ts > op.arg)
        /\ pendingCount(queue["A"]) = 0
  /\ \A i \in 1..Len(returned["A"]) : returned["A"][i] \notin dropped["A"]
  /\ Uids(queue["A"].pending) \cap dropped["A"] = {}

\* A pollSince that returned a fresh message and drained a stale one, with a
\* later drain having taken place.
C6_Witness ==
  /\ op.name = "pollSince" /\ op.arg > 0
  /\ Len(ret) = 1
  /\ dropped["A"] # {}
  /\ Len(lastDrain) = 2

\* C7: a fresh MessageQueue built from the backing file has the same pending
\* messages as the live object, after any sequence of operations.
C7_ReloadSamePending ==
  MQ_load(qfile["A"]).pending = queue["A"].pending

\* After an enqueue, a drain and another enqueue, the unpolled message is
\* pending in the fresh instance, with its text.
C7_Witness ==
  /\ op.name = "enqueue"
  /\ Len(MQ_load(qfile["A"]).pending) = 1
  /\ MQ_load(qfile["A"]).pending[1].text = "world"
  /\ Len(queue["A"].delivered) > 0

\* C2: whatever the interleaving of ingestion and agent calls on a session,
\* no enqueued message is handed to the agent twice: the messages returned by
\* all calls so far are pairwise distinct.
C2_ReturnedAtMostOnce ==
  \A p \in Sessions : \A i, j \in 1..Len(returned[p]) :
    returned[p][i] = returned[p][j] => i = j

\* An interact call returns a message while another interact call is still
\* waiting, after an earlier call had returned a message too.
C2_Witness ==
  /\ lastResp.tool = "interact" /\ lastResp.uids # <<>>
  /\ Len(returned["A"]) = 2
  /\ \E c \in CallIds : calls["A"][c].pc = "wait" /\ calls["A"][c].tool = "interact"

\* C3: an interact call that passes as since_ts the now of the interact call
\* before it returns every message enqueued into the session's queue since
\* that call returned.
C3_NowAsSinceSkipsNothing ==
  lastResp.follows =>
    \A i \in 1..Len(lastResp.expect) : InSeq(lastResp.expect[i], lastResp.uids)

\* C10: when the send of interact fails, the call answers ok:false with
\* "send failed" in that step, is over (no wait, whatever wait was asked), and
\* neither that step nor the arrival of the call changes the queue object,
\* its file or what was handed out.
C10_FailedSendReturnsAtOnce ==
  [][/\ SendDone("A", "c1", FALSE) =>
          /\ lastResp'.ok = FALSE /\ lastResp'.error = "send failed"
          /\ calls'["A"]["c1"] = IdleCall
          /\ queue' = queue /\ qfile' = qfile /\ returned' = returned
     /\ (\E wait \in Waits, sinceTs \in 0..MaxTime :
            InteractCall("A", "c1", TRUE, wait, sinceTs)) =>
          queue' = queue /\ qfile' = qfile /\ returned' = returned]_vars

\* A failed send of a call that asked to wait, with a message pending.
C10_Witness ==
  /\ lastResp.error = "send failed" /\ ~lastResp.ok
  /\ lastResp.wait > 0
  /\ queue["A"].pending # <<>>
  /\ calls["A"]["c1"].pc = "idle"

\* C8 as stated: an update identifier causes at most one enqueue by the
\* loop, however often and whenever the transport delivers it.
C8_AtMostOneEnqueuePerUpdate ==
  \A u \in UpdateIds :
    Cardinality({i \in DOMAIN enqLog : enqLog[i].by = "A" /\ enqLog[i].upd = u}) <= 1

\* C8, amended: an identifier is handled again only once more than DEDUP_CAP
\* identifiers were handled after it (it has left processedUpdates), and it
\* is enqueued no more often than it was handled: a delivery of an identifier
\* still in processedUpdates enqueues nothing.
C8_NoEnqueueWhileRemembered ==
  LET ins == insLog["A"]
  IN  /\ \A i, j \in 1..Len(ins) : (i < j /\ ins[i] = ins[j]) => j - i > DEDUP_CAP
      /\ \A u \in UpdateIds :
           Cardinality({i \in DOMAIN enqLog : enqLog[i].by = "A" /\ enqLog[i].upd = u})
             <= Cardinality({i \in 1..Len(ins) : ins[i] = u})

\* The loop has just skipped a second delivery of the text update 1, which
\* stays enqueued once.
C8_Witness ==
  /\ 1 \in lastSkipped
  /\ Cardinality({i \in DOMAIN enqLog : enqLog[i].upd = 1}) = 1
  /\ Len(insLog["A"]) >= 2

\* C9: with an authorized chat configured, no update of another chat is
\* enqueued, and its text is in no pending list, of a queue object or of a
\* queue file.
C9_UnauthorizedNeverEnqueued ==
  CHAT_ID # NoText =>
    /\ \A i \in DOMAIN enqLog : Update(enqLog[i].upd).chat = CHAT_ID
    /\ \A s \in Sessions :
         LET inFile == MQ_load(qfile[s]).pending
         IN  /\ \A i \in 1..Len(queue[s].pending) : queue[s].pending[i].text # "intruder"
             /\ \A i \in 1..Len(inFile) : inFile[i].text # "intruder"

\* The loop handled a text update, then an update of another chat, and the
\* text is pending.
C9_Witness ==
  /\ CHAT_ID = AuthChat
  /\ \E i, j \in 1..Len(insLog["A"]) :
       i < j /\ insLog["A"][i] = 1 /\ insLog["A"][j] = 2
  /\ Len(queue["A"].pending) >= 1

\* C4: once a process broadcast a message into the queue file of another
\* session whose process was running, an interact call without since_ts that
\* returns in that session's process has handed the message out, itself or
\* a call before it.
C4_LiveSessionReceivesCopy ==
  (lastResp.tool = "interact" /\ lastResp.ok /\ lastResp.sinceTs = 0) =>
    \A i \in DOMAIN enqLog :
      (/\ enqLog[i].into = lastResp.proc
       /\ enqLog[i].by # lastResp.proc
       /\ enqLog[i].targetUp)
        => InSeq(enqLog[i].msg.uid, returned[lastResp.proc])

\* C5 as stated: the copies one process makes of one update for two
\* sessions have the same text, the same timestamp and different ids.
C5_SameTimestampDifferentIds ==
  \A i, j \in DOMAIN enqLog :
    (/\ i < j
     /\ enqLog[i].by = enqLog[j].by /\ enqLog[i].upd = enqLog[j].upd
     /\ enqLog[i].into # enqLog[j].into)
      => /\ enqLog[i].msg.text = enqLog[j].msg.text
         /\ enqLog[i].msg.ts = enqLog[j].msg.ts
         /\ enqLog[i].msg.id # enqLog[j].msg.id

\* C5, amended: a run of the update loop enqueues a copy for every session
\* live in its registry object and one for its own session; each copy is
\* pending where it was put (the own queue object, the other session's
\* file); the copies have the same text, and each has the timestamp of its
\* own enqueue, a later copy never an earlier one.
C5_CopiesSameTextOwnTimestamp ==
  [][LET new == SubSeq(enqLog', Len(enqLog) + 1, Len(enqLog'))
     IN  /\ \A i, j \in 1..Len(new) :
              (i < j /\ new[i].by = new[j].by /\ new[i].upd = new[j].upd) =>
                /\ new[i].into # new[j].into
                /\ new[i].msg.text = new[j].msg.text
                /\ new[i].msg.ts <= new[j].msg.ts
         /\ \A i \in 1..Len(new) :
              /\ InSeq(new[i].msg, MQ_load(qfile'[new[i].into]).pending)
              /\ new[i].into = new[i].by =>
                    InSeq(new[i].msg, queue'[new[i].by].pending)
         /\ new # <<>> =>
              \A s \in getActive(registry[new[1].by], now') \cup {new[1].by} :
                \E i \in 1..Len(new) : new[i].into = s]_vars

\* Process A enqueued a copy of one update for A and one for B; A's is
\* pending in its queue object, B's in B's queue file, with another timestamp.
C5_Witness ==
  \E i, j \in DOMAIN enqLog :
    /\ enqLog[i].by = "A" /\ enqLog[j].by = "A" /\ enqLog[i].upd = enqLog[j].upd
    /\ enqLog[i].into = "A" /\ enqLog[j].into = "B"
    /\ InSeq(enqLog[i].msg, queue["A"].pending)
    /\ InSeq(enqLog[j].msg, MQ_load(qfile["B"]).pending)
    /\ enqLog[i].msg.ts # enqLog[j].msg.ts

\* C11 as stated: every response of an interact call that asked to wait is
\* ok:true and holds every qualifying message that arrived while it waited.
C11_WaitCallAlwaysOk ==
  (lastResp.tool = "interact" /\ lastResp.wait > 0) =>
    /\ lastResp.ok
    /\ \A i \in 1..Len(lastResp.arrived) : InSeq(lastResp.arrived[i], lastResp.uids)

\* C11, amended: with one call in flight, an interact call that asked to
\* wait answers "send failed" when its send failed, and otherwise ok:true
\* with every qualifying message that arrived while it waited; a call in its
\* wait loop returns once its deadline is reached.
C11_WaitEndsOkUnlessSendFailed ==
  /\ []((lastResp.tool = "interact" /\ lastResp.wait > 0) =>
          \/ ~lastResp.ok /\ lastResp.error = "send failed" /\ lastResp.uids = <<>>
          \/ /\ lastResp.ok
             /\ \A i \in 1..Len(lastResp.arrived) :
                  InSeq(lastResp.arrived[i], lastResp.uids))
  /\ ((calls["A"]["c1"].pc = "wait" /\ calls["A"]["c1"].tool = "interact"
        /\ calls["A"]["c1"].deadline <= MaxTime)
       ~> calls["A"]["c1"].pc = "idle")

\* A call with since_ts that waited returns the message that arrived
\* meanwhile.
C11_Witness ==
  /\ lastResp.tool = "interact" /\ lastResp.ok /\ lastResp.wait > 0
  /\ lastResp.sinceTs > 0
  /\ lastResp.arrived # <<>>
  /\ lastResp.uids = lastResp.arrived

\* C12: getActive() holds exactly the sessions that were registered, not
\* deactivated since, and registered or heartbeated less than the liveness
\* window ago.
C12_GetActiveExactlyLive ==
  \A s \in Sessions :
    s \in getActive(registry["A"], now)
      <=> (beat[s].on /\ beat[s].at # 0 /\ now - beat[s].at < LIVENESS_WINDOW)

\* Right after a heartbeat: A is in getActive(), B, registered and never
\* deactivated, has fallen out of the window.
C12_Witness ==
  /\ op.name = "heartbeat"
  /\ getActive(registry["A"], now) = {"A"}
  /\ beat["B"].on /\ now - beat["B"].at >= LIVENESS_WINDOW

\* C13 as stated: no /start or /sessions of the authorized chat is ever
\* enqueued into a session queue.
C13_CommandNeverEnqueued ==
  \A i \in 1..Len(enqLog) :
    ~(/\ Update(enqLog[i].upd).text \in {"/start", "/sessions"}
      /\ Update(enqLog[i].upd).chat = AuthChat)

\* The entries the step adds to the enqueue log.
C13_NewEntries == {i \in 1..Len(enqLog') : i > Len(enqLog)}

\* The updates the step of p takes past the dedup set.
C13_NewSeen(p) == {i \in 1..Len(insLog'[p]) : i > Len(insLog[p])}

\* C13: a /start or /sessions of the authorized chat that the server without
\* topics receives, or that the server with topics receives in General, is
\* answered through the transport client (the handler stops at it and
\* awaits the send) and is enqueued into no queue; the server with topics
\* treats /start and /sessions posted in a topic as a message.
C13_CommandAnsweredNotEnqueued ==
  [][\A p \in Sessions :
       LET IsCmd(u) == /\ Update(u).text \in {"/start", "/sessions"}
                       /\ Update(u).chat = AuthChat
                       /\ ~(variant[p] = "topics" /\ Update(u).is_bot)
                       /\ (variant[p] = "topics" => Update(u).topic = 0)
       IN  /\ \A i \in C13_NewEntries :
                 enqLog'[i].by = p => ~IsCmd(enqLog'[i].upd)
           /\ \A i \in C13_NewSeen(p) :
                 IsCmd(insLog'[p][i]) =>
                   /\ loop'[p] = "reply"
                   /\ i = Len(insLog'[p])]_vars

\* The server with topics, with a topic of its own, awaits the reply to the
\* /start it received in General after it enqueued a message.
C13_Witness ==
  /\ loop["A"] = "reply"
  /\ variant["A"] = "topics"
  /\ topicMap["A"] # 0
  /\ Len(enqLog) = 1
  /\ insLog["A"][Len(insLog["A"])] = 5

\* C20: in the server with topics, a message posted in a topic is enqueued
\* only by the process of the session the topic map gives the topic to, and
\* only into that session's own queue; every other process enqueues nothing
\* for it.
C20_TopicMessageOnlyToOwner ==
  \A i \in 1..Len(enqLog) :
    Update(enqLog[i].upd).topic # 0 =>
      /\ enqLog[i].owner = buildTopicToSessionMap(
                             [s \in Sessions |-> TopicOf[s]])[Update(enqLog[i].upd).topic]
      /\ enqLog[i].by = enqLog[i].owner
      /\ enqLog[i].into = enqLog[i].owner

\* Both processes have received the message posted in A's topic while both
\* sessions were live and in the topic map: A alone enqueued it, for itself.
C20_Witness ==
  /\ topicMap["A"] = TopicOf["A"] /\ topicMap["B"] = TopicOf["B"]
  /\ InSeq(7, insLog["A"]) /\ InSeq(7, insLog["B"])
  /\ InSeq("B", getActiveSessionIds(registry["A"], now))
  /\ \E i \in 1..Len(enqLog) : enqLog[i].upd = 7 /\ enqLog[i].by = "A"
  /\ \A i \in 1..Len(enqLog) : enqLog[i].upd = 7 => enqLog[i].into = "A"

\* The delivered list in A's backing file (empty when no file was written).
C14_FileDelivered ==
  IF qfile["A"].kind = "json" THEN UidSeqOf(qfile["A"].delivered) ELSE <<>>

\* C14: after any sequence of enqueue, poll and pollSince, the delivered list
\* in the backing file has at most MAX_HISTORY entries, and they are the last
\* MAX_HISTORY messages drained, in drain order.
C14_FileKeepsLastDelivered ==
  /\ Len(C14_FileDelivered) <= MAX_HISTORY
  /\ \/ /\ Len(deliveredLog) <= MAX_HISTORY
        /\ C14_FileDelivered = deliveredLog
     \/ /\ Len(deliveredLog) > MAX_HISTORY
        /\ C14_FileDelivered =
             SubSeq(deliveredLog, Len(deliveredLog) - MAX_HISTORY + 1, Len(deliveredLog))

\* One more message than the cap was drained, in more than one drain: the
\* file holds the last MAX_HISTORY of them.
C14_Witness ==
  /\ Len(deliveredLog) = MAX_HISTORY + 1
  /\ Len(C14_FileDelivered) = MAX_HISTORY
  /\ C14_FileDelivered[1] = deliveredLog[Len(deliveredLog) - MAX_HISTORY + 1]
  /\ op.name \in {"poll", "pollSince"}
  /\ Len(ret) < Len(deliveredLog)

\* C15 as stated: while a process runs, no step of its ingestion loop lowers
\* the offset cursor, whatever batches the transport returns.
C15_CursorNeverDecreases ==
  [][\A p \in Sessions : running[p] => lastUpdateId'[p] >= lastUpdateId[p]]_vars

\* C16 as stated: a freshly started process never enqueues an update the
\* transport already held when the process started, whatever the outcome
\* of the flush request.
C16_BacklogNeverEnqueued ==
  \A i \in 1..Len(enqLog) : enqLog[i].upd \notin Backlog

\* C17 as stated: in every ok interact response, now is at least the ts of
\* every message the response returns.
C17_NowNotBeforeReturned ==
  (lastResp.tool = "interact" /\ lastResp.ok) =>
    \A i \in 1..Len(lastResp.messages) : lastResp.messages[i].ts <= lastResp.now

\* C17: in every ok interact response, now is the clock read when the call
\* arrived, before any send and any wait: it is not after the clock at the
\* response, no returned message has a ts after the clock at the response,
\* and now is at least the ts of every returned message when the call sent
\* nothing and no qualifying message arrived while it waited.
C17_NowReadAtCallStart ==
  (lastResp.tool = "interact" /\ lastResp.ok) =>
    /\ lastResp.now <= now
    /\ \A i \in 1..Len(lastResp.messages) : lastResp.messages[i].ts <= now
    /\ (~lastResp.sent /\ lastResp.arrived = <<>>) =>
         \A i \in 1..Len(lastResp.messages) :
           lastResp.messages[i].ts <= lastResp.now

\* An ok interact response whose message arrived during the wait, in a
\* later second than the one the call read as now.
C17_Witness ==
  /\ lastResp.tool = "interact" /\ lastResp.ok
  /\ lastResp.wait > 0 /\ ~lastResp.sent
  /\ Len(lastResp.messages) = 1
  /\ lastResp.messages[1].ts > lastResp.now
  /\ lastResp.uids = lastResp.arrived

\* What the i-th request of the last sendTelegramMessage call did.
C18_OutcomeOf(i) == IF i = 1 THEN op.arg.r1 ELSE op.arg.r2

\* C18: sendTelegramMessage never throws; it makes the Markdown request
\* first and at most one plain request after it; it returns true exactly
\* when one of the requests it made was answered ok; it returns false when
\* a request failed; without the bot token or the chat id it makes no
\* request and returns false.
C18_SendNeverThrows ==
  op.name = "sendTelegramMessage" =>
    /\ ~ret.thrown
    /\ Len(ret.attempts) <= 2
    /\ Len(ret.attempts) >= 1 => ret.attempts[1] = "Markdown"
    /\ Len(ret.attempts) = 2 => ret.attempts[2] = "plain"
    /\ ret.result <=> \E i \in 1..Len(ret.attempts) : C18_OutcomeOf(i) = "ok"
    /\ (\E i \in 1..Len(ret.attempts) : C18_OutcomeOf(i) = "throw") => ~ret.result
    /\ (~op.arg.token \/ op.arg.chat = "") => (ret.attempts = <<>> /\ ~ret.result)
    /\ (op.arg.token /\ op.arg.chat # "") => Len(ret.attempts) >= 1

\* A configured call whose Markdown request was refused and whose plain
\* request was accepted, after a call whose plain request failed.
C18_Witness ==
  /\ op.name = "sendTelegramMessage"
  /\ op.arg.token /\ op.arg.chat # ""
  /\ op.arg.r1 = "notok" /\ op.arg.r2 = "ok"
  /\ ret.result /\ Len(ret.attempts) = 2
  /\ prevOp.name = "sendTelegramMessage"
  /\ prevOp.arg.token /\ prevOp.arg.r1 = "notok" /\ prevOp.arg.r2 = "throw"

\* C19 as stated: interact and send_message answer an empty outbound text
\* with an explicit error, and attempt no send for it.
C19_EmptyTextRejected ==
  /\ (lastResp.proc # "none" /\ lastResp.text = "") => lastResp.error # "none"
  /\ \A p \in Sessions : \A c \in CallIds :
       calls[p][c].pc \in {"send", "legacysend"} => calls[p][c].text # ""

C22_EnqueueIdsDiffer ==
  \A i, j \in 1..Len(expectPending["A"]) :
    i < j => expectPending["A"][i].id # expectPending["A"][j].id

\* C23 as stated: a registry mutation made by the process of session p
\* (register at its start, heartbeat after a poll) leaves the entries of the
\* other sessions in the registry file as they were.
C23_MutationKeepsOtherEntries ==
  [][\A p \in Sessions :
       loop'[p] # loop[p] =>
         \A s \in Sessions \ {p} : regFile'.sessions[s] = regFile.sessions[s]]_vars

\* C24 as stated: when process p broadcasts a human message, every running
\* session s that registered after p started and whose last heartbeat is
\* within the liveness window is in p's getActive() and gets a copy.
C24_LateSessionGetsCopy ==
  [][LET new == SubSeq(enqLog', Len(enqLog) + 1, Len(enqLog'))
     IN  \A p \in Sessions : \A s \in Sessions \ {p} :
           (/\ \E i \in 1..Len(new) : new[i].by = p
            /\ running[p] /\ running[s]
            /\ registry[s][s].startedAt > registry[p][p].startedAt
            /\ registry[s][s].active
            /\ now' - registry[s][s].lastSeen < LIVENESS_WINDOW)
             => /\ s \in getActive(registry[p], now')
                /\ \E i \in 1..Len(new) : new[i].by = p /\ new[i].into = s]_vars

\* The entries of the enqueue log the step adds for update u, made by
\* process p into its own queue.
C25_OwnCopies(p, u) ==
  {k \in 1..Len(enqLog') :
     /\ k > Len(enqLog)
     /\ enqLog'[k].by = p /\ enqLog'[k].into = p /\ enqLog'[k].upd = u}

\* C25: every human text message of an authorized chat, not a command, that
\* the ingestion loop of p handles is enqueued exactly once into p's own
\* queue and is pending there, whether or not p's session is live in p's
\* registry at that moment.
C25_OwnQueueExactlyOnce ==
  [][\A p \in Sessions :
       \A i \in 1..Len(insLog'[p]) :
         LET u == insLog'[p][i]
         IN  (/\ i > Len(insLog[p])
              /\ Update(u).text # NoText
              /\ Update(u).text \notin {"/start", "/sessions"}
              /\ (CHAT_ID = "" \/ Update(u).chat = CHAT_ID))
               => /\ Cardinality(C25_OwnCopies(p, u)) = 1
                  /\ \A k \in C25_OwnCopies(p, u) :
                       InSeq(enqLog'[k].msg, queue'[p].pending)]_vars

\* Process A enqueued a message into its own queue when its own registry
\* entry was past the liveness window, so that no session was live; the
\* loop then stopped at a command, before the next heartbeat.
C25_Witness ==
  /\ loop["A"] = "reply"
  /\ ~running["B"]
  /\ getActive(registry["A"], now) = {}
  /\ \E k \in 1..Len(enqLog) :
       /\ enqLog[k].by = "A" /\ enqLog[k].into = "A"
       /\ enqLog[k].msg.ts - registry["A"]["A"].lastSeen >= LIVENESS_WINDOW
       /\ InSeq(enqLog[k].msg, queue["A"].pending)

\* The copies of update u in the queue file of session s, pending or
\* delivered.
C26_CopiesInFile(s, u) ==
  {k \in 1..Len(enqLog) :
     /\ enqLog[k].upd = u /\ enqLog[k].into = s
     /\ LET f == MQ_load(qfile[s])
        IN  InSeq(enqLog[k].msg, f.pending) \/ InSeq(enqLog[k].msg, f.delivered)}

\* C26 as stated: when both processes have received the same update, the
\* queue file of each running session holds exactly one copy of it.
C26_OneCopyPerSession ==
  \A u \in {1, 3} :
    (InSeq(u, insLog["A"]) /\ InSeq(u, insLog["B"])) =>
      \A s \in Sessions : running[s] => Cardinality(C26_CopiesInFile(s, u)) = 1

\* C27 as stated: while a session that was shut down by a signal has not
\* registered again, its entry in the registry file has active = false and
\* no running process has it in getActive().
C27_DeactivatedStaysInactive ==
  \A s \in Sessions :
    (~running[s] /\ loop[s] = "stopped") =>
      /\ ~regFile.sessions[s].active
      /\ \A p \in Sessions \ {s} :
           running[p] => s \notin getActive(registry[p], now)

\* C28 as stated: after poll or pollSince the queue object's delivered list
\* holds at most MAX_HISTORY entries.
C28_DeliveredWithinCap ==
  op.name \in {"poll", "pollSince"} => Len(queue["A"].delivered) <= MAX_HISTORY

\* C29: in every state of one queue no message is in both pending and
\* delivered; every message enqueued so far is once in pending or once in
\* delivered, or in neither and then it was delivered before and cut off by
\* the history cap; the two lists hold nothing that was not enqueued.
C29_Places(u) ==
  Cardinality({i \in 1..Len(queue["A"].pending) : queue["A"].pending[i].uid = u})
  + Cardinality({i \in 1..Len(queue["A"].delivered) : queue["A"].delivered[i].uid = u})

C29_Evicted ==
  {deliveredLog[i] : i \in 1..Len(deliveredLog)}
    \ (Uids(queue["A"].pending) \cup Uids(queue["A"].delivered))

C29_EachMessageInOnePlace ==
  /\ Uids(queue["A"].pending) \cap Uids(queue["A"].delivered) = {}
  /\ Uids(queue["A"].pending) \cup Uids(queue["A"].delivered) \subseteq 1..(nextUid - 1)
  /\ \A u \in 1..(nextUid - 1) :
       \/ C29_Places(u) = 1
       \/ C29_Places(u) = 0 /\ u \in C29_Evicted

\* Two messages were moved to delivered by a pollSince, a stale one and a
\* fresh one, and a third was enqueued after it.
C29_Witness ==
  /\ prevOp.name = "pollSince"
  /\ op.name = "enqueue"
  /\ Len(queue["A"].delivered) = 2
  /\ Len(ret) = 1
  /\ Len(queue["A"].pending) = 1
  /\ \E i, j \in 1..2 : queue["A"].delivered[i].ts < queue["A"].delivered[j].ts

\* C30: in every state where the handler of getUpdates is about to run,
\* on whatever result the transport gives it or on the rest of a result
\* after a command reply: when its loop has gone through the update at a
\* position of the result (a duplicate, an update without text, one of
\* another chat, a command or a broadcast message), the cursor is greater
\* than that update's identifier.
C30_After(batch, tickAt, i) ==
  HandleUpdates("A", HandlerState("A"), SubSeq(batch, 1, i), tickAt, FixedDraw)

C30_Each(batch, tickAt) ==
  \A i \in 1..Len(batch) :
    LET st == C30_After(batch, tickAt, i)
    IN  st.rest = <<>> => st.lu > batch[i]

C30_CursorPastEachUpdate ==
  /\ (running["A"] /\ loop["A"] = "poll") =>
       \A batch \in Batches(IngestIds), tickAt \in {0, 1} : C30_Each(batch, tickAt)
  /\ (running["A"] /\ loop["A"] = "reply") =>
       \A tickAt \in {0, 1} : C30_Each(inbox["A"], tickAt)

\* The loop has handled a text, an update of another chat, one without text
\* and a command, and in its last run skipped a duplicate below the cursor.
C30_Witness ==
  /\ CHAT_ID = AuthChat
  /\ \A u \in IngestIds : Has(insLog["A"], u)
  /\ \E u \in lastSkipped : lastUpdateId["A"] = u + 1
  /\ loop["A"] = "sleep"

\* C31: every ok response of interact reports pending = 0.
C31_OkInteractPendingZero ==
  (lastResp.tool = "interact" /\ lastResp.ok) => lastResp.pending = 0

\* An ok interact response with since_ts that handed out one message while
\* two were pending: the stale one went to delivered without being returned.
C31_Witness ==
  /\ lastResp.tool = "interact" /\ lastResp.ok
  /\ lastResp.sinceTs # 0
  /\ Len(lastResp.messages) = 1
  /\ Len(queue["A"].delivered) = 2
  /\ Len(returned["A"]) = 1
  /\ queue["A"].delivered[1].ts <= lastResp.sinceTs

\* C32: the messages another process enqueued into session A's queue file
\* while A's process was not running stay in the file in the order of their
\* arrival; when A's process is started again they are pending in its queue
\* object in that order, and once A has polled after a start every one of
\* them has been returned, in that order.
C32_WhileDown ==
  LET own == SelectSeq(enqLog, LAMBDA e : e.into = "A" /\ ~e.targetUp)
  IN  [i \in 1..Len(own) |-> own[i].msg.uid]

C32_NotYetReturned ==
  SelectSeq(C32_WhileDown, LAMBDA u : ~InSeq(u, returned["A"]))

C32_Of(uids) == SelectSeq(uids, LAMBDA u : InSeq(u, C32_WhileDown))

C32_DeadSessionAccumulates ==
  /\ ~running["A"] =>
       C32_Of(UidSeqOf(qfile["A"].pending)) = C32_NotYetReturned
  /\ (running["A"] /\ retNow["A"] = 0) =>
       C32_Of(UidSeqOf(queue["A"].pending)) = C32_NotYetReturned
  /\ (running["A"] /\ retNow["A"] # 0) =>
       C32_Of(returned["A"]) = C32_WhileDown

\* A's agent got, in one poll after a restart, two messages that B's
\* process had put into A's file while A's process was down.
C32_Witness ==
  /\ running["A"]
  /\ lastResp.proc = "A" /\ lastResp.ok
  /\ Len(lastResp.uids) = 2
  /\ lastResp.uids = C32_WhileDown

\* C33: the step in which a process runs shutdown() leaves its session
\* with active = false in its registry object and in the registry file it
\* wrote, absent from its getActive(), and the loop flag cleared; one more
\* run of shutdown() would change neither the object nor the file; and from
\* then on, until the session is started again, the ingestion loop of that
\* process makes no step.
C33_ShutdownDeactivatesAndStops ==
  [][\A p \in Sessions :
       /\ (running[p] /\ ~running'[p]) =>
            /\ ~registry'[p][p].active
            /\ ~regFile'.sessions[p].active
            /\ regFile' = SR_save(registry'[p])
            /\ p \notin getActive(registry'[p], now')
            /\ ~pollingActive'[p]
            /\ shutdown(registry'[p], regFile', p)
                 = [reg |-> registry'[p], file |-> regFile']
       /\ (~running[p] /\ loop[p] = "stopped" /\ ~running'[p]) =>
            /\ loop'[p] = "stopped"
            /\ lastUpdateId'[p] = lastUpdateId[p]
            /\ insLog'[p] = insLog[p]
            /\ registry'[p] = registry[p]
            /\ ~pollingActive'[p]]_vars

\* Session A's process has shut down with its own entry registered and B's
\* known to it, while B's process is running.
C33_Witness ==
  /\ ~running["A"] /\ loop["A"] = "stopped"
  /\ running["B"]
  /\ registry["A"]["A"].known /\ registry["A"]["B"].known
  /\ ~regFile.sessions["A"].active
  /\ regFile.sessions["B"].active

\* C34: a tick in which getUpdates throws, answers not ok or answers with an
\* empty result leaves the cursor, the dedup set, the queue objects and the
\* queue files as they were, heartbeats the session (lastSeen is the time of
\* the tick, in the registry object and in the file) and leaves the loop in
\* its sleep with the loop flag set; and a sleeping loop polls again.
C34_FailedTickChangesNothing ==
  /\ [][\A kind \in FailKinds, tickAt \in {0, 1} :
          PollResponse("A", kind, <<>>, tickAt, FixedDraw) =>
            /\ lastUpdateId' = lastUpdateId
            /\ processedUpdates' = processedUpdates
            /\ queue' = queue /\ qfile' = qfile
            /\ enqLog' = enqLog
            /\ registry'["A"]["A"].lastSeen = now'
            /\ registry'["A"]["A"].active
            /\ regFile' = SR_save(registry'["A"])
            /\ loop'["A"] = "sleep" /\ pollingActive'["A"]]_vars
  /\ (loop["A"] = "sleep") ~> (loop["A"] = "poll")

\* A message was handled at one time, and a later tick that enqueued
\* nothing has heartbeated the session with the message still pending.
C34_Witness ==
  /\ loop["A"] = "sleep"
  /\ Len(queue["A"].pending) = 1
  /\ queue["A"].pending[1].ts < registry["A"]["A"].lastSeen
  /\ registry["A"]["A"].lastSeen = now
  /\ lastUpdateId["A"] = 2

\* C35: on one registry object, heartbeat(id) of a known id sets that
\* entry's lastSeen to the time of the call and leaves its other fields and
\* every other entry as they were, in the object and in the file, so a
\* deactivated session stays out of getActive(); deactivate(id) of a known
\* id clears that entry's active flag and leaves the rest; with an unknown
\* id both leave the object and the file as they were.
C35_OnlyField(sid, entry) ==
  /\ registry'["A"] = [registry["A"] EXCEPT ![sid] = entry]
  /\ regFile'.kind = "json"
  /\ regFile'.sessions = [regFile.sessions EXCEPT ![sid] = entry]

C35_HeartbeatDeactivateFrame ==
  [][\A sid \in Sessions :
       /\ RHeartbeat(sid) =>
            IF registry["A"][sid].known
            THEN /\ C35_OnlyField(sid, [registry["A"][sid] EXCEPT !.lastSeen = now])
                 /\ ~registry["A"][sid].active =>
                      sid \notin getActive(registry'["A"], now')
            ELSE registry' = registry /\ regFile' = regFile
       /\ RDeactivate(sid) =>
            IF registry["A"][sid].known
            THEN C35_OnlyField(sid, [registry["A"][sid] EXCEPT !.active = FALSE])
            ELSE registry' = registry /\ regFile' = regFile]_vars

\* Session A was registered, deactivated and, at a later time, heartbeated:
\* its lastSeen is now and it is not in getActive(); B is unknown.
C35_Witness ==
  /\ op.name = "heartbeat"
  /\ registry["A"]["A"].known /\ ~registry["A"]["A"].active
  /\ registry["A"]["A"].lastSeen = now
  /\ registry["A"]["A"].startedAt < now
  /\ beat["A"].at = now
  /\ "A" \notin getActive(registry["A"], now)
  /\ ~registry["A"]["B"].known

\* C36: a step of pendingCount(), pendingCountSince(s) or check_status
\* leaves the pending and delivered lists of the queue object and the queue
\* file as they were; pendingCount() and check_status give the number of
\* pending messages, pendingCountSince(s) the number of pending messages
\* with ts > s, and with s = 0 the number of all of them.
C36_Pending == queue["A"].pending

C36_CountsReadOnly ==
  [][(\/ lastResp'.tool \in {"pendingCount", "pendingCountSince", "check_status"}
      \/ /\ calls'["A"]["c1"].pc # calls["A"]["c1"].pc
         /\ "check_status" \in {calls["A"]["c1"].tool, calls'["A"]["c1"].tool}) =>
       /\ queue' = queue /\ qfile' = qfile
       /\ lastResp'.tool \in {"pendingCount", "check_status"} =>
            lastResp'.pending = Len(C36_Pending)
       /\ lastResp'.tool = "pendingCountSince" =>
            /\ lastResp'.pending =
                 Cardinality({i \in 1..Len(C36_Pending) :
                                C36_Pending[i].ts > lastResp'.sinceTs})
            /\ lastResp'.sinceTs = 0 => lastResp'.pending = Len(C36_Pending)]_vars

\* pendingCountSince(1) counted one of two pending messages, the other
\* having ts = 1.
C36_Witness ==
  /\ lastResp.tool = "pendingCountSince"
  /\ lastResp.sinceTs = 1
  /\ lastResp.pending = 1
  /\ Len(queue["A"].pending) = 2
  /\ queue["A"].pending[1].ts = 1

\* C37: from any state, poll_messages and interact without message, wait
\* and since_ts leave the same queue object and queue file and answer with
\* the same messages (text and ts, in order): those of one poll().
C37_LegacyPollSameAsInteract ==
  [][(PollMessages("A", "c1") \/ InteractCall("A", "c1", FALSE, 0, 0)) =>
       LET r == poll(queue["A"], qfile["A"])
       IN  /\ queue'["A"] = r.q
           /\ qfile' = [qfile EXCEPT !["A"] = r.file]
           /\ lastResp'.messages = Slim(r.msgs)
           /\ lastResp'.uids = UidSeq(r.msgs)
           /\ calls'["A"]["c1"] = IdleCall]_vars

\* interact() answered with two messages of different seconds, after an
\* earlier call had moved nothing to delivered.
C37_Witness ==
  /\ lastResp.tool = "interact" /\ lastResp.ok
  /\ lastResp.wait = 0 /\ lastResp.sinceTs = 0 /\ lastResp.text = Absent
  /\ Len(lastResp.messages) = 2
  /\ lastResp.messages[1].ts < lastResp.messages[2].ts
  /\ Len(queue["A"].delivered) = 2

\* C38: the dedup set holds at most DEDUP_CAP identifiers, and they are the
\* ones inserted last: whenever one is removed it is the earliest inserted.
C38_DedupHoldsLatest ==
  /\ Len(processedUpdates["A"]) <= DEDUP_CAP
  /\ processedUpdates["A"] = SliceLast(insLog["A"], DEDUP_CAP)

\* More identifiers than the capacity were inserted, and the first of them
\* is no longer in the set.
C38_Witness ==
  /\ loop["A"] = "sleep"
  /\ Len(insLog["A"]) > DEDUP_CAP
  /\ Len(processedUpdates["A"]) = DEDUP_CAP
  /\ ~Has(processedUpdates["A"], insLog["A"][1])

\* C39: a queue object built on a missing or unparseable file starts with
\* empty pending and delivered lists, and from then on it is the queue a
\* new one would be: pending is what was enqueued since the last drain,
\* delivered what the drains moved, poll returns what was pending, and
\* the file, once written, is the saved object.
C39_FreshQueueOnBadFile ==
  /\ op = IdleOp => queue["A"] = EmptyQueue
  /\ queue["A"].pending = expectPending["A"]
  /\ UidSeqOf(queue["A"].delivered) = deliveredLog
  /\ op.name = "poll" => ret = lastDrain
  /\ qfile["A"].kind \in {"missing", "corrupt"} => nextUid = 1
  /\ qfile["A"].kind = "json" => qfile["A"] = MQ_save(queue["A"])

\* Two messages were enqueued and polled on such a queue, in order.
C39_Witness ==
  /\ op.name = "poll" /\ prevOp.name = "enqueue"
  /\ Len(ret) = 2
  /\ ret[1].uid < ret[2].uid
  /\ queue["A"].pending = <<>>
  /\ Len(queue["A"].delivered) = 2

\* C40: with no chat id configured, every text message the loop handles as
\* new is enqueued into the own queue with its text, whatever chat it is
\* from: as many times as its identifier was inserted into the dedup set.
C40_Enqueued(u) ==
  Cardinality({i \in 1..Len(enqLog) :
                 /\ enqLog[i].by = "A" /\ enqLog[i].into = "A" /\ enqLog[i].upd = u
                 /\ enqLog[i].msg.text = Update(u).text})

C40_Inserted(u) ==
  Cardinality({i \in 1..Len(insLog["A"]) : insLog["A"][i] = u})

C40_NoChatIdNoFilter ==
  CHAT_ID = NoText => \A u \in OpenIds : C40_Enqueued(u) = C40_Inserted(u)

\* The message of the other chat and the one of the usual chat are both
\* pending in A's queue.
C40_Witness ==
  /\ CHAT_ID = NoText
  /\ Len(queue["A"].pending) = 2
  /\ {queue["A"].pending[i].text : i \in 1..2} = {"intruder", "hello"}
  /\ Update(2).chat = OtherChat
====
